---- MODULE Spec2Model ----
(***************************************************************************)
(* kodx (Code Xray): the resolution core of the extension.                 *)
(*                                                                         *)
(*   parser.ts    extractFunctionDefinition, findEnclosingFunctionRange,   *)
(*                findEnclosingFunctionByBraces, parseFunctionCallsInRange *)
(*   resolver.ts  resolveFunctionDefinition, findDefinitionInDocument,     *)
(*                extractFunctionContent                                   *)
(*   panel.ts     XrayPanel.updateForEditor                                *)
(*                                                                         *)
(* A document is a non-empty sequence of lines, a line a sequence of       *)
(* one-character strings.  Indices of the code are zero-based; sequences   *)
(* here are one-based, so line i of the code is doc[i + 1].                *)
(***************************************************************************)
EXTENDS Integers, Sequences, FiniteSets, TLC

VARIABLES
    scenario,     \* which part of the core this behaviour exercises
    document,     \* the originating TextDocument (its lines)
    \* ---- the bracket-depth scans (extractFunctionDefinition / extractFunctionContent)
    exKind,       \* "none" | "definition" | "content": the extractor that is running
    exStart,      \* its startLine argument
    exI,          \* the loop variable i
    braceCount,   \* braceCount
    foundBrace,   \* startedCapturing (parser.ts) / foundBrace (resolver.ts)
    started,      \* started (resolver.ts only)
    exLines,      \* lines: the collected lines
    exReads,      \* the line indices handed to document.lineAt, in call order
    exResult,     \* the value returned
    exPc,         \* "idle" | "loop" | "done"
    \* ---- findEnclosingFunctionRange
    outlineStatus,\* what vscode.executeDocumentSymbolProvider does: "throws" | "undefined" | "ok"
    outline,      \* the DocumentSymbol tree it resolves to, as a table of nodes
    position,     \* the cursor Position
    locResult,    \* the value the locator resolves to
    locTierB,     \* the number of calls of findEnclosingFunctionByBraces so far
    locThrew,     \* the locator's promise rejected
    locPc,        \* "idle" | "awaitSymbols" | "done"
    \* ---- updateForEditor: the calls of the enclosing scope
    scope,        \* enclosingFunction: [range, name]
    calls,        \* what parseFunctionCallsInRange returned
    unique,       \* `unique`: the calls handed to resolution
    callPc,       \* "idle" | "done"
    docCalls,     \* what parseFunctionCalls returned for the whole document
    docPc,        \* "idle" | "done"
    \* ---- resolveFunctionDefinition
    functionName, \* the name to resolve
    indexStatus,  \* what vscode.executeWorkspaceSymbolProvider does: "throws" | "undefined" | "ok"
    index,        \* the SymbolInformation[] it resolves to
    resSymbol,    \* `symbol`: the index entry chosen
    resResult,    \* the value the resolver resolves to
    resLocalCalls,\* the number of calls of findDefinitionInDocument so far
    resThrew,     \* the resolver's promise rejected
    resPc,        \* "idle" | "awaitSymbols" | "awaitOpen" | "done"
    \* ---- the Xray panel and its updateForEditor runs
    texts,        \* the open TextDocuments: uri -> the number of edits made to its text
    activeUri,    \* the document of the active editor
    cursor,       \* editor.selection.active of the active editor
    epoch,        \* the number of edits and editor switches so far
    panel,        \* the XrayPanel: webview html, title, _currentEnclosingLine, ...
    runs,         \* the updateForEditor calls, oldest first, each with its locals
    \* ---- highlighter.ts
    highlighter,  \* _highlighter: 0 for null, else the highlighter it refers to
    currentThemeName, \* _currentThemeName: "null" | "vsTheme"
    disposals,    \* the number of disposeHighlighter calls so far
    made,         \* the highlighters shiki.createHighlighter was asked for, in call order
    renders,      \* the highlightCode calls, oldest first
    \* ---- FunctionDecorationProvider and the active editor
    languageId,   \* document.languageId of the active editor
    enableInlineDecoration, \* the setting kodx.enableInlineDecoration
    isEnabled,    \* _isEnabled
    shown,        \* the indicator decorations the editor shows
    updates       \* the updateDecorations calls, oldest first

exVars == <<exKind, exStart, exI, braceCount, foundBrace, started, exLines, exReads, exResult, exPc>>
locVars == <<outlineStatus, outline, position, locResult, locTierB, locThrew, locPc>>
callVars == <<scope, calls, unique, callPc, docCalls, docPc>>
resVars == <<functionName, indexStatus, index, resSymbol, resResult, resLocalCalls, resThrew, resPc>>
panelVars == <<texts, activeUri, cursor, epoch, panel, runs>>
hlVars == <<highlighter, currentThemeName, disposals, made, renders>>
decoVars == <<languageId, enableInlineDecoration, isEnabled, shown, updates>>
vars == <<scenario, document, exVars, locVars, callVars, resVars, panelVars, hlVars, decoVars>>
\* What the actions of one part leave alone.
exFrame == <<scenario, document, locVars, callVars, resVars, panelVars, hlVars, decoVars>>
locFrame == <<scenario, document, exVars, callVars, resVars, panelVars, hlVars, decoVars>>
callFrame == <<scenario, document, exVars, locVars, resVars, panelVars, hlVars, decoVars>>
resFrame == <<scenario, document, exVars, locVars, callVars, panelVars, hlVars, decoVars>>

\* null / undefined as a result
NotFound == [found |-> FALSE]

\* ------------------------------------------------- each part before its call
ExIdle ==
    /\ exKind = "none"
    /\ exStart = 0
    /\ exI = 0
    /\ braceCount = 0
    /\ foundBrace = FALSE
    /\ started = FALSE
    /\ exLines = <<>>
    /\ exReads = <<>>
    /\ exResult = NotFound
    /\ exPc = "idle"

LocIdle ==
    /\ outlineStatus = "undefined"
    /\ outline = <<>>
    /\ position = [line |-> 0, character |-> 0]
    /\ locResult = NotFound
    /\ locTierB = 0
    /\ locThrew = FALSE
    /\ locPc = "idle"


\* ------------------------------------------------------------------ bounds
\* The longest document (in lines) of the enumerated brace documents.
MaxLines == 3

\* --------------------------------------------------------------- characters
NL == "\n"
Letters == {"a", "b", "c", "d", "e", "f", "g", "h", "i", "j", "k", "l", "m", "n", "o", "p", "q", "r", "s", "t", "u", "v", "w", "x", "y", "z",
            "A", "B", "C", "D", "E", "F", "G", "H", "I", "J", "K", "L", "M", "N", "O", "P", "Q", "R", "S", "T", "U", "V", "W", "X", "Y", "Z"}
Digits == {"0", "1", "2", "3", "4", "5", "6", "7", "8", "9"}
\* \w of a JavaScript regular expression
WordChars == Letters \cup Digits \cup {"_"}
\* \s of a JavaScript regular expression
SpaceChars == {" ", "\t", NL}

\* ---------------------------------------------------------- sequence helpers
Min(a, b) == IF a < b THEN a ELSE b
Max(a, b) == IF a > b THEN a ELSE b

\* String.prototype.indexOf(c) for one character: zero-based, -1 when absent.
IndexOf(s, c) ==
    IF \E k \in 1..Len(s) : s[k] = c
    THEN (CHOOSE k \in 1..Len(s) : s[k] = c /\ \A j \in 1..(k - 1) : s[j] # c) - 1
    ELSE -1

\* String.prototype.includes(needle)
Includes(hay, needle) ==
    \E k \in 0..(Len(hay) - Len(needle)) : SubSeq(hay, k + 1, k + Len(needle)) = needle

\* String.prototype.slice(from, to) with 0 <= from, to: zero-based, end exclusive.
Slice(s, from, to) == SubSeq(s, Min(from, Len(s)) + 1, Min(to, Len(s)))

\* Array.prototype.join('\n')
RECURSIVE JoinLines(_)
JoinLines(ls) ==
    IF Len(ls) = 0 THEN <<>>
    ELSE IF Len(ls) = 1 THEN ls[1]
    ELSE ls[1] \o <<NL>> \o JoinLines(Tail(ls))

\* String.prototype.split('\n').length
SplitLength(s) == 1 + Cardinality({k \in 1..Len(s) : s[k] = NL})

\* ------------------------------------------------------- the TextDocument
\* document.lineCount
LineCount(doc) == Len(doc)
\* document.lineAt(i).text (the host rejects a line outside the document; the
\* empty text stands for that here, and exReads records the index asked for)
LineAt(doc, i) == IF i \in 0..(Len(doc) - 1) THEN doc[i + 1] ELSE <<>>
\* document.getText()
GetText(doc) == JoinLines(doc)

CallIdle ==
    /\ scope = [range |-> [start |-> [line |-> 0, character |-> 0],
                           end |-> [line |-> 0, character |-> 0]],
                name |-> <<>>]
    /\ calls = <<>>
    /\ unique = <<>>
    /\ callPc = "idle"
    /\ docCalls = <<>>
    /\ docPc = "idle"

\* No panel is open.
PanelIdle ==
    /\ texts = <<>>
    /\ activeUri = "none"
    /\ cursor = [line |-> 0, character |-> 0]
    /\ epoch = 0
    /\ panel = [open |-> FALSE]
    /\ runs = <<>>

\* No highlighter was asked for.
HlIdle ==
    /\ highlighter = 0
    /\ currentThemeName = "null"
    /\ disposals = 0
    /\ made = <<>>
    /\ renders = <<>>

\* The provider as constructed, and an editor without decorations.
DecoIdle ==
    /\ languageId = "typescript"
    /\ enableInlineDecoration = TRUE
    /\ isEnabled = TRUE
    /\ shown = <<>>
    /\ updates = <<>>

ResIdle ==
    /\ functionName = <<>>
    /\ indexStatus = "undefined"
    /\ index = <<>>
    /\ resSymbol = NotFound
    /\ resResult = NotFound
    /\ resLocalCalls = 0
    /\ resThrew = FALSE
    /\ resPc = "idle"

\* ------------------------------------- parser.ts: extractFunctionDefinition
\* The loop condition `i < lineCount` of both extractors.
LoopConditionInclusive(i, lineCount) == i <= lineCount
LoopCondition(i, lineCount) == i < lineCount

\* `startedCapturing && braceCount === 0`, tested right after `braceCount--`.
BalancedAtOrBelow(sc, bc) == sc /\ bc <= 0
BalancedAt(sc, bc) == sc /\ bc = 0

\* `return null` after the loop of extractFunctionDefinition; ls: the lines
\* collected so far.
DefinitionAtEndPartial(ls) == [found |-> TRUE, content |-> JoinLines(ls), endLine |-> Len(ls)]
DefinitionAtEnd(ls) == NotFound

\* `return null` after the loop of extractFunctionContent.
ContentAtEnd(ls) == NotFound

\* The inner loop `for (const char of line)` from character k on.  hit: the
\* `return` inside the loop was taken.
RECURSIVE ScanDefinitionChars(_, _, _, _)
ScanDefinitionChars(line, k, bc, sc) ==
    IF k > Len(line) THEN [braceCount |-> bc, foundBrace |-> sc, hit |-> FALSE]
    ELSE IF line[k] = "{" THEN ScanDefinitionChars(line, k + 1, bc + 1, TRUE)
    ELSE IF line[k] = "}" THEN
        IF BalancedAt(sc, bc - 1)
        THEN [braceCount |-> bc - 1, foundBrace |-> sc, hit |-> TRUE]
        ELSE ScanDefinitionChars(line, k + 1, bc - 1, sc)
    ELSE ScanDefinitionChars(line, k + 1, bc, sc)

\* One iteration of `for (let i = startLine; i < lineCount; i++)` on line i.
DefinitionLineStep(st, line, i) ==
    LET r == ScanDefinitionChars(line, 1, st.braceCount, st.foundBrace) IN
    IF r.hit
    THEN LET ls == Append(st.lines, SubSeq(line, 1, IndexOf(line, "}") + 1)) IN
         [braceCount |-> r.braceCount, foundBrace |-> r.foundBrace, started |-> st.started,
          lines |-> ls,
          result |-> [found |-> TRUE, content |-> JoinLines(ls), endLine |-> i]]
    ELSE [braceCount |-> r.braceCount, foundBrace |-> r.foundBrace, started |-> st.started,
          lines |-> IF r.foundBrace THEN Append(st.lines, line)
                    ELSE IF Includes(line, <<"{">>) THEN Append(st.lines, line)
                    ELSE st.lines,
          result |-> NotFound]

\* ---------------------------------------- resolver.ts: extractFunctionContent
RECURSIVE ScanContentChars(_, _, _, _)
ScanContentChars(line, k, bc, fb) ==
    IF k > Len(line) THEN [braceCount |-> bc, foundBrace |-> fb, hit |-> FALSE]
    ELSE IF line[k] = "{" THEN ScanContentChars(line, k + 1, bc + 1, TRUE)
    ELSE IF line[k] = "}" THEN
        IF BalancedAt(fb, bc - 1)
        THEN [braceCount |-> bc - 1, foundBrace |-> fb, hit |-> TRUE]
        ELSE ScanContentChars(line, k + 1, bc - 1, fb)
    ELSE ScanContentChars(line, k + 1, bc, fb)

\* One iteration of the loop of extractFunctionContent on line i.
ContentLineStep(st, line, i, startLine) ==
    LET ls0 == IF ~st.started THEN Append(st.lines, line) ELSE st.lines
        r == ScanContentChars(line, 1, st.braceCount, st.foundBrace)
    IN
    IF r.hit
    THEN LET ls == IF ~Includes(ls0[Len(ls0)], line) THEN Append(ls0, line) ELSE ls0
             content == JoinLines(ls)
         IN [braceCount |-> r.braceCount, foundBrace |-> r.foundBrace, started |-> TRUE,
             lines |-> ls,
             result |-> IF Len(content) > 0
                        THEN [found |-> TRUE, content |-> content, endLine |-> i]
                        ELSE NotFound,
             returned |-> TRUE]
    ELSE [braceCount |-> r.braceCount, foundBrace |-> r.foundBrace, started |-> TRUE,
          lines |-> IF i > startLine THEN Append(ls0, line) ELSE ls0,
          result |-> NotFound,
          returned |-> FALSE]

ExtractInitState == [braceCount |-> 0, foundBrace |-> FALSE, started |-> FALSE,
                     lines |-> <<>>, result |-> NotFound]

\* extractFunctionContent as a function of (document, startLine): the loop run
\* from line i on.  endLine is the loop index at the return (the code returns
\* the content alone; callers read .content).
RECURSIVE ContentFrom(_, _, _, _)
ContentFrom(doc, startLine, i, st) ==
    IF ~LoopCondition(i, LineCount(doc)) THEN ContentAtEnd(st.lines)
    ELSE LET n == ContentLineStep(st, LineAt(doc, i), i, startLine) IN
         IF n.returned THEN n.result
         ELSE ContentFrom(doc, startLine, i + 1,
                          [braceCount |-> n.braceCount, foundBrace |-> n.foundBrace,
                           started |-> n.started, lines |-> n.lines, result |-> NotFound])

extractFunctionContent(doc, startLine) == ContentFrom(doc, startLine, startLine, ExtractInitState)

\* ------------------------------------------------------ the scan as a process
ExState == [braceCount |-> braceCount, foundBrace |-> foundBrace, started |-> started,
            lines |-> exLines, result |-> NotFound]

\* A caller invokes one of the two extractors on the document.
CallExtractor ==
    /\ scenario = "extract"
    /\ exPc = "idle"
    /\ \E k \in {"definition", "content"}, s \in 0..(LineCount(document) + 1) :
        /\ exKind' = k
        /\ exStart' = s
        /\ exI' = s
    /\ braceCount' = 0
    /\ foundBrace' = FALSE
    /\ started' = FALSE
    /\ exLines' = <<>>
    /\ exReads' = <<>>
    /\ exResult' = NotFound
    /\ exPc' = "loop"
    /\ UNCHANGED exFrame

\* extractFunctionDefinition: one iteration of the loop over the lines.
StepDefinition ==
    /\ exPc = "loop"
    /\ exKind = "definition"
    /\ LoopCondition(exI, LineCount(document))
    /\ LET n == DefinitionLineStep(ExState, LineAt(document, exI), exI) IN
        /\ braceCount' = n.braceCount
        /\ foundBrace' = n.foundBrace
        /\ started' = n.started
        /\ exLines' = n.lines
        /\ exResult' = n.result
        /\ exPc' = IF n.result.found THEN "done" ELSE "loop"
        /\ exI' = IF n.result.found THEN exI ELSE exI + 1
    /\ exReads' = Append(exReads, exI)
    /\ UNCHANGED <<exFrame, exKind, exStart>>

\* extractFunctionContent: one iteration of the loop over the lines.
StepContent ==
    /\ exPc = "loop"
    /\ exKind = "content"
    /\ LoopCondition(exI, LineCount(document))
    /\ LET n == ContentLineStep(ExState, LineAt(document, exI), exI, exStart) IN
        /\ braceCount' = n.braceCount
        /\ foundBrace' = n.foundBrace
        /\ started' = n.started
        /\ exLines' = n.lines
        /\ exResult' = n.result
        /\ exPc' = IF n.returned THEN "done" ELSE "loop"
        /\ exI' = IF n.returned THEN exI ELSE exI + 1
    /\ exReads' = Append(exReads, exI)
    /\ UNCHANGED <<exFrame, exKind, exStart>>

\* Either extractor: the loop condition i < lineCount fails, `return null`.
ExtractReturnNull ==
    /\ exPc = "loop"
    /\ ~LoopCondition(exI, LineCount(document))
    /\ exResult' = IF exKind = "definition" THEN DefinitionAtEnd(exLines) ELSE ContentAtEnd(exLines)
    /\ exPc' = "done"
    /\ UNCHANGED <<exFrame, exKind, exStart, exI, braceCount, foundBrace, started, exLines, exReads>>

\* ------------------------------------------------------------ the documents
\* Lines over braces and one other character, up to two characters long.
BraceLines == {<<>>, <<"x">>, <<"x", "}">>, <<"}", "x">>}
                 \cup {<<a>> : a \in {"{", "}"}}
                 \cup {<<a, b>> : a \in {"{", "}"}, b \in {"{", "}"}}
BraceDocuments == UNION {[1..n -> BraceLines] : n \in 1..MaxLines}

KwFunction == <<"f", "u", "n", "c", "t", "i", "o", "n">>
KwReturn == <<"r", "e", "t", "u", "r", "n">>
\* "function f() {"
LineFunctionF == KwFunction \o <<" ", "f", "(", ")", " ", "{">>
\* "  return 1;"
LineReturn1 == <<" ", " ">> \o KwReturn \o <<" ", "1", ";">>
\* ["function f() {", "  return 1;", "}"]
DocTerminated == <<LineFunctionF, LineReturn1, <<"}">>>>
\* ["function f() {", "  return 1;"]
DocUnterminated == <<LineFunctionF, LineReturn1>>

ExtractDocuments == BraceDocuments \cup {DocTerminated, DocUnterminated}

InitExtract ==
    /\ scenario = "extract"
    /\ document \in ExtractDocuments
    /\ ExIdle
    /\ LocIdle
    /\ CallIdle
    /\ ResIdle
    /\ PanelIdle
    /\ HlIdle
    /\ DecoIdle

NextExtract == CallExtractor \/ StepDefinition \/ StepContent \/ ExtractReturnNull

SpecExtract == InitExtract /\ [][NextExtract]_vars

\* Each extractor is synchronous code: once called, its loop runs on.
SpecExtractFair == SpecExtract /\ WF_vars(NextExtract)

\* ------------------------------------------------ bracket-depth, from the text
\* The text the scan covers: the lines from startLine to the end, joined.
TextFrom(doc, startLine) ==
    IF startLine >= Len(doc) THEN <<>> ELSE JoinLines(SubSeq(doc, startLine + 1, Len(doc)))

\* Brace depth after the first k characters of t.
DepthAfter(t, k) ==
    Cardinality({j \in 1..k : t[j] = "{"}) - Cardinality({j \in 1..k : t[j] = "}"})

\* The offsets (one-based) of t at which a `}` returns the depth to exactly
\* zero after a `{` has been seen.
BalancePoints(t) ==
    {k \in 1..Len(t) : /\ t[k] = "}"
                        /\ DepthAfter(t, k) = 0
                        /\ \E j \in 1..(k - 1) : t[j] = "{"}

\* The same, "after the depth has been positive at least once".
PositiveBalancePoints(t) ==
    {k \in 1..Len(t) : /\ t[k] = "}"
                        /\ DepthAfter(t, k) = 0
                        /\ \E j \in 1..(k - 1) : DepthAfter(t, j) > 0}

FirstOf(S) == CHOOSE k \in S : \A j \in S : k <= j

\* The document line holding offset k of TextFrom(doc, startLine).
LineOfTextFrom(doc, startLine, k) ==
    LET t == TextFrom(doc, startLine) IN
    startLine + Cardinality({j \in 1..(k - 1) : t[j] = NL})

\* C8: the scan of either extractor asks for the lines startLine, startLine+1,
\* ... in order, each once, never for an index at or beyond lineCount, and
\* once called it returns (a result or NotFound).
C8_ReadsInOrder ==
    /\ \A k \in 1..Len(exReads) : exReads[k] = exStart + k - 1
    /\ \A k \in 1..Len(exReads) : exReads[k] < LineCount(document)
C8_ScanBounded == [](C8_ReadsInOrder) /\ ((exPc = "loop") ~> (exPc = "done"))
\* A malformed document read to its last line: the scan ended with the
\* depth not zero, having read every line.
C8_Witness ==
    /\ exPc = "done"
    /\ exStart = 0
    /\ Len(exReads) = LineCount(document)
    /\ LineCount(document) = MaxLines
    /\ braceCount < 0
    /\ ~exResult.found

\* C9: when no `}` from the start line on brings the depth to exactly zero
\* after a `{`, either extractor returns NotFound, not partial content.
C9_UnterminatedIsNotFound ==
    /\ (exPc = "done" /\ BalancePoints(TextFrom(document, exStart)) = {}) => exResult = NotFound
    /\ (exPc = "done" /\ document = DocUnterminated /\ exStart = 0) => exResult = NotFound
\* The unterminated example, scanned to the end by extractFunctionDefinition
\* with lines already collected.
C9_Witness ==
    /\ exPc = "done"
    /\ exKind = "definition"
    /\ document = DocUnterminated
    /\ exStart = 0
    /\ Len(exLines) = 2
    /\ exResult = NotFound

\* C10: when extractFunctionDefinition succeeds, endLine is the first line at
\* or after the start line on which a `}` returns the depth to exactly zero
\* after the depth has been positive; it is 2 for the three-line example.
C10_EndLineIsFirstBalance ==
    /\ (exPc = "done" /\ exKind = "definition" /\ exResult.found) =>
          LET t == TextFrom(document, exStart) IN
          /\ PositiveBalancePoints(t) # {}
          /\ exResult.endLine = LineOfTextFrom(document, exStart, FirstOf(PositiveBalancePoints(t)))
    /\ (exPc = "done" /\ exKind = "definition" /\ document = DocTerminated /\ exStart = 0) =>
          exResult.found /\ exResult.endLine = 2
\* A success later than the start line, from a start line that is not 0, with
\* a stray `}` before the block.
C10_Witness ==
    /\ exPc = "done"
    /\ exKind = "definition"
    /\ exResult.found
    /\ exStart = 1
    /\ exResult.endLine = 2
    /\ document[2] = <<"}", "{">>

\* The first line at or after startLine that holds a `{` (zero-based).
FirstBraceLine(doc, startLine) ==
    FirstOf({i \in startLine..(Len(doc) - 1) : Includes(doc[i + 1], <<"{">>)})

\* C11: when extractFunctionDefinition succeeds, its content is the document
\* lines from the line holding the first `{` through the terminating line,
\* each verbatim, joined by newlines; the three lines joined for the example.
C11_ContentIsLinesVerbatim ==
    /\ (exPc = "done" /\ exKind = "definition" /\ exResult.found) =>
          exResult.content =
              JoinLines(SubSeq(document, FirstBraceLine(document, exStart) + 1,
                               exResult.endLine + 1))
    /\ (exPc = "done" /\ exKind = "definition" /\ document = DocTerminated /\ exStart = 0) =>
          exResult.content = JoinLines(DocTerminated)

\* The line of the first `}` that returns the depth to zero after it has been
\* positive, scanning from startLine (zero-based).
BalancingLine(doc, startLine) ==
    LineOfTextFrom(doc, startLine, FirstOf(PositiveBalancePoints(TextFrom(doc, startLine))))

\* C23: when extractFunctionContent succeeds with the balancing `}` on a line
\* t after the start line, its content is the lines startLine..t joined by
\* newlines, whatever line t-1 holds.
C23_ContentThroughBalancingLine ==
    (/\ exPc = "done"
     /\ exKind = "content"
     /\ exResult.found
     /\ BalancingLine(document, exStart) > exStart)
    => exResult.content =
           JoinLines(SubSeq(document, exStart + 1, BalancingLine(document, exStart) + 1))

\* ======================================================================
\* findEnclosingFunctionRange (parser.ts)
\* ======================================================================

\* --------------------------------------------------- Position and Range
Pos(l, c) == [line |-> l, character |-> c]
\* Position.isBeforeOrEqual
PosLE(a, b) == a.line < b.line \/ (a.line = b.line /\ a.character <= b.character)
Rng(a, b) == [start |-> a, end |-> b]
\* Range.contains(position): both ends inclusive.
RangeContainsEndExclusive(r, p) == PosLE(r.start, p) /\ PosLE(p, r.end) /\ p # r.end
RangeContains(r, p) == PosLE(r.start, p) /\ PosLE(p, r.end)

\* document.offsetAt(position): the position is first adjusted to the document.
offsetAt(doc, p) ==
    LET l == IF p.line < 0 THEN 0 ELSE Min(p.line, LineCount(doc) - 1)
        c == IF p.line < 0 THEN 0
             ELSE IF p.line >= LineCount(doc) THEN Len(doc[l + 1])
             ELSE Max(0, Min(p.character, Len(doc[l + 1])))
    IN Len(JoinLines(SubSeq(doc, 1, l))) + (IF l > 0 THEN 1 ELSE 0) + c

\* document.positionAt(offset): the offset is first adjusted to the text.
positionAt(doc, offset) ==
    LET t == GetText(doc)
        o == Max(0, Min(offset, Len(t)))
        l == Cardinality({k \in 1..o : t[k] = NL})
        lineStart == IF l = 0 THEN 0
                     ELSE CHOOSE k \in 1..o :
                            t[k] = NL /\ Cardinality({j \in 1..k : t[j] = NL}) = l
    IN Pos(l, o - lineStart)

\* text[i] of the code (zero-based); "" stands for undefined.
CharAt(t, i) == IF i >= 0 /\ i < Len(t) THEN t[i + 1] ELSE ""

\* ------------------------------------------------------------- Tier A
\* The weight of a line in rangeSize.
LineWeight == 10000

\* rangeSize(r)
rangeSize(r) ==
    (r.end.line - r.start.line) * LineWeight + (r.end.character - r.start.character)

\* functionKinds
functionKindsWithoutConstructor == {"Function", "Method"}
functionKinds == {"Function", "Method", "Constructor"}

\* The outline is a table of nodes [name, kind, range, parent]; parent is the
\* index of the node whose `children` holds this node, 0 for a root.  The
\* children of a node are in table order.
RECURSIVE IdsWithParent(_, _, _)
IdsWithParent(tbl, parent, k) ==
    IF k > Len(tbl) THEN <<>>
    ELSE (IF tbl[k].parent = parent THEN <<k>> ELSE <<>>) \o IdsWithParent(tbl, parent, k + 1)
\* sym.children ?? []
Children(tbl, id) == IdsWithParent(tbl, id, 1)
\* symbols: the roots
Roots(tbl) == IdsWithParent(tbl, 0, 1)

\* The scope a symbol stands for: its range, and its name as panel.ts reads
\* it from the locator's result (enclosingFunction.name).
SymbolScope(sym) == [found |-> TRUE, range |-> sym.range, name |-> sym.name]

\* searchSymbols(syms): the loop from the k-th symbol on, `best` so far.
RECURSIVE SearchLoop(_, _, _, _, _)
SearchLoop(tbl, syms, p, k, best) ==
    IF k > Len(syms) THEN best
    ELSE LET sym == tbl[syms[k]] IN
         IF RangeContains(sym.range, p)
         THEN LET b1 == IF /\ sym.kind \in functionKinds
                           /\ (~best.found \/ rangeSize(sym.range) < rangeSize(best.range))
                        THEN SymbolScope(sym) ELSE best
                  child == SearchLoop(tbl, Children(tbl, syms[k]), p, 1, NotFound)
                  b2 == IF child.found /\ (~b1.found \/ rangeSize(child.range) < rangeSize(b1.range))
                        THEN child ELSE b1
              IN SearchLoop(tbl, syms, p, k + 1, b2)
         ELSE SearchLoop(tbl, syms, p, k + 1, best)

searchSymbols(tbl, syms, p) == SearchLoop(tbl, syms, p, 1, NotFound)

\* ------------------------------------------------------------- Tier B
\* The window of text before the opening brace that is searched for a preamble.
PreambleWindow == 200

\* The forward walk from the cursor: the offset of the first `}` met at depth
\* 0, or -1.
FirstCloseOfText(t, i, depth) ==
    LET closes == {k \in 0..(Len(t) - 1) : t[k + 1] = "}"} IN
    IF closes = {} THEN -1 ELSE CHOOSE k \in closes : \A j \in closes : k <= j
RECURSIVE ForwardClose(_, _, _)
ForwardClose(t, i, depth) ==
    IF i >= Len(t) THEN -1
    ELSE IF CharAt(t, i) = "{" THEN ForwardClose(t, i + 1, depth + 1)
    ELSE IF CharAt(t, i) = "}" THEN
        IF depth = 0 THEN i ELSE ForwardClose(t, i + 1, depth - 1)
    ELSE ForwardClose(t, i + 1, depth)

\* The backward walk from the cursor: the offset of the first `{` met at
\* depth 0, or -1.
RECURSIVE BackwardOpen(_, _, _)
BackwardOpen(t, i, depth) ==
    IF i < 0 THEN -1
    ELSE IF CharAt(t, i) = "}" THEN BackwardOpen(t, i - 1, depth + 1)
    ELSE IF CharAt(t, i) = "{" THEN
        IF depth = 0 THEN i ELSE BackwardOpen(t, i - 1, depth - 1)
    ELSE BackwardOpen(t, i - 1, depth)

\* Regular expressions are run as sets of offsets: from the offsets in P, the
\* offsets at which a piece of the pattern can end.
AllIn(t, i, j, C) == \A k \in (i + 1)..j : t[k] \in C
\* a literal
Lit(t, P, w) == {i + Len(w) : i \in {x \in P : x + Len(w) <= Len(t) /\ SubSeq(t, x + 1, x + Len(w)) = w}}
\* C*  and  C+
Star(t, P, C) ==
    IF P = {} THEN {} ELSE {j \in 0..Len(t) : \E i \in P : i <= j /\ AllIn(t, i, j, C)}
Plus(t, P, C) ==
    IF P = {} THEN {} ELSE {j \in 0..Len(t) : \E i \in P : i < j /\ AllIn(t, i, j, C)}

KwAsync == <<"a", "s", "y", "n", "c">>

\* /(?:function\s+\w+|\w+\s*(?:=|:)\s*(?:async\s+)?(?:function|\())[^{]*$/
\* tried at offset i of the preamble.
PreambleHeadEnds(t, i) ==
    LET a == Plus(t, Plus(t, Lit(t, {i}, KwFunction), SpaceChars), WordChars)
        b1 == Star(t, Plus(t, {i}, WordChars), SpaceChars)
        b2 == Star(t, Lit(t, b1, <<"=">>) \cup Lit(t, b1, <<":">>), SpaceChars)
        b3 == b2 \cup Plus(t, Lit(t, b2, KwAsync), SpaceChars)
        b4 == Lit(t, b3, KwFunction) \cup Lit(t, b3, <<"(">>)
    IN a \cup b4
PreambleMatchesAt(t, i) ==
    \E e \in PreambleHeadEnds(t, i) : \A k \in (e + 1)..Len(t) : t[k] # "{"
\* preamble.match(...): the start of the leftmost match, or -1.  The match runs
\* to the end of the preamble, so preamble.lastIndexOf(fnMatch[0]) is that start.
PreambleMatchIndex(t) ==
    LET starts == {i \in 0..Len(t) : PreambleMatchesAt(t, i)} IN
    IF starts # {} THEN CHOOSE i \in starts : \A j \in starts : i <= j ELSE -1

\* The longest run of \w from offset i.
WordRunEnd(t, i) == CHOOSE j \in i..Len(t) :
    AllIn(t, i, j, WordChars) /\ (j = Len(t) \/ t[j + 1] \notin WordChars)

\* The NAME of the preamble matched at offset i: the identifier after
\* `function`, or the identifier that is assigned the function.
PreambleName(t, i) ==
    LET fn == Plus(t, Lit(t, {i}, KwFunction), SpaceChars) IN
    IF \E e \in fn : e < Len(t) /\ t[e + 1] \in WordChars
    THEN LET e == CHOOSE e \in fn : \A f \in fn : f <= e IN SubSeq(t, e + 1, WordRunEnd(t, e))
    ELSE SubSeq(t, i + 1, WordRunEnd(t, i))

findEnclosingFunctionByBraces(doc, p) ==
    LET text == GetText(doc)
        offset == offsetAt(doc, p)
        closingOffset == ForwardClose(text, offset, 0)
        openingOffset == BackwardOpen(text, offset, 0)
        preamble == Slice(text, Max(0, openingOffset - PreambleWindow), openingOffset)
        idx == PreambleMatchIndex(preamble)
        startOffset == openingOffset - PreambleWindow + idx
    IN IF closingOffset = -1 THEN NotFound
       ELSE IF openingOffset = -1 THEN NotFound
       ELSE IF idx = -1 THEN NotFound
       ELSE [found |-> TRUE,
             range |-> Rng(positionAt(doc, Max(0, startOffset)), positionAt(doc, closingOffset + 1)),
             name |-> PreambleName(preamble, idx)]

\* ---------------------------------------------- the locator's three paths
\* What a path of findEnclosingFunctionRange ends in: the value (or the
\* rejection) and the number of Tier B calls it made.
ViaBraces(doc, p) ==
    [threw |-> FALSE, tierB |-> 1, result |-> findEnclosingFunctionByBraces(doc, p)]

\* `catch { return findEnclosingFunctionByBraces(document, position); }`
OnOutlineErrorRethrow(doc, p) == [threw |-> TRUE, tierB |-> 0, result |-> NotFound]
OnOutlineError(doc, p) == ViaBraces(doc, p)

\* `if (!symbols || symbols.length === 0) return findEnclosingFunctionByBraces(...)`
OnNoSymbols(doc, p) == ViaBraces(doc, p)

\* `return searchSymbols(symbols) ?? findEnclosingFunctionByBraces(...)`
OnSymbolsAlwaysBraces(tbl, doc, p) == ViaBraces(doc, p)
OnSymbols(tbl, doc, p) ==
    LET a == searchSymbols(tbl, Roots(tbl), p) IN
    IF a.found THEN [threw |-> FALSE, tierB |-> 0, result |-> a] ELSE ViaBraces(doc, p)

\* findEnclosingFunctionRange is called; it awaits the symbol provider.
FindEnclosingCall ==
    /\ scenario = "locate"
    /\ locPc = "idle"
    /\ locPc' = "awaitSymbols"
    /\ UNCHANGED <<locFrame, outlineStatus, outline, position, locResult, locTierB, locThrew>>

LocFinish(r) ==
    /\ locResult' = r.result
    /\ locTierB' = locTierB + r.tierB
    /\ locThrew' = r.threw
    /\ locPc' = "done"
    /\ UNCHANGED <<locFrame, outlineStatus, outline, position>>

\* The symbol provider fails: the catch block.
SymbolsThrow ==
    /\ locPc = "awaitSymbols"
    /\ outlineStatus = "throws"
    /\ LocFinish(OnOutlineError(document, position))

\* The symbol provider resolves to undefined or to an empty array.
SymbolsEmpty ==
    /\ locPc = "awaitSymbols"
    /\ outlineStatus = "undefined" \/ (outlineStatus = "ok" /\ Len(outline) = 0)
    /\ LocFinish(OnNoSymbols(document, position))

\* The symbol provider resolves to a tree: Tier A, then Tier B.
SymbolsSearch ==
    /\ locPc = "awaitSymbols"
    /\ outlineStatus = "ok"
    /\ Len(outline) > 0
    /\ LocFinish(OnSymbols(outline, document, position))

\* ------------------------------------------------------- the locator's inputs
\* The most nodes an outline holds.
MaxSymbols == 2
\* A column beyond the weight rangeSize gives a line.
LongColumn == LineWeight + 1
OutlinePositions == {Pos(0, 0), Pos(0, 1), Pos(0, LongColumn), Pos(1, 0)}
OutlineRanges == {Rng(a, b) : a \in OutlinePositions, b \in OutlinePositions} \ 
                 {r \in {Rng(a, b) : a \in OutlinePositions, b \in OutlinePositions} :
                    ~PosLE(r.start, r.end) \/ r.start = r.end}
SymbolKinds == {"Function", "Method", "Constructor", "Class"}
SymbolNames == <<<<"f">>, <<"g">>, <<"h">>, <<"k">>, <<"m">>>>

RangeWithin(inner, outer) == PosLE(outer.start, inner.start) /\ PosLE(inner.end, outer.end)

\* The outlines of n nodes: every node after its parent, within its parent's range.
OutlinesOf(n) ==
    {tbl \in [1..n -> [name : {SymbolNames[i] : i \in 1..n}, kind : SymbolKinds,
                       range : OutlineRanges, parent : 0..(n - 1)]] :
        \A i \in 1..n :
            /\ tbl[i].name = SymbolNames[i]
            /\ tbl[i].parent < i
            /\ tbl[i].parent > 0 => RangeWithin(tbl[i].range, tbl[tbl[i].parent].range)}

\* "function f() {", "  g();", "}"
DocFunctionF == <<LineFunctionF, <<" ", " ", "g", "(", ")", ";">>, <<"}">>>>
\* "x = 1;": no braces at all
DocTopLevel == <<<<"x", " ", "=", " ", "1", ";">>>>
\* "{", "  g();", "}": a block without a function preamble
DocBareBlock == <<<<"{">>, <<" ", " ", "g", "(", ")", ";">>, <<"}">>>>
LocateDocuments == {DocFunctionF, DocTopLevel, DocBareBlock}

InitLocate ==
    /\ scenario = "locate"
    /\ document \in LocateDocuments
    /\ ExIdle
    /\ outlineStatus \in {"throws", "undefined", "ok"}
    /\ IF outlineStatus = "ok"
       THEN outline \in UNION {OutlinesOf(n) : n \in 0..MaxSymbols}
       ELSE outline = <<>>
    /\ position \in OutlinePositions
    /\ locResult = NotFound
    /\ locTierB = 0
    /\ locThrew = FALSE
    /\ locPc = "idle"
    /\ CallIdle
    /\ ResIdle
    /\ PanelIdle
    /\ HlIdle
    /\ DecoIdle

NextLocate == FindEnclosingCall \/ SymbolsThrow \/ SymbolsEmpty \/ SymbolsSearch

SpecLocate == InitLocate /\ [][NextLocate]_vars

\* ------------------------------------- the inputs of the brace heuristic
KwIf == <<"i", "f">>
\* "function f() { if (x) { y(); } z(); }"
DocNestedOneLine ==
    <<LineFunctionF \o <<" ">> \o KwIf \o <<" ", "(", "x", ")", " ", "{", " ", "y", "(", ")", ";", " ", "}">>
      \o <<" ", "z", "(", ")", ";", " ", "}">>>>
\* "function f() {", "  if (x) {", "  }", "}"
DocNestedLines ==
    <<LineFunctionF, <<" ", " ">> \o KwIf \o <<" ", "(", "x", ")", " ", "{">>, <<" ", " ", "}">>, <<"}">>>>
\* "{ function f() { } }": a function in a block that has no preamble
DocFunctionInBlock == <<<<"{", " ">> \o LineFunctionF \o <<" ", "}", " ", "}">>>>
\* "function f() { } }": a `}` too many
DocStrayClose == <<LineFunctionF \o <<" ", "}", " ", "}">>>>
\* Twenty-one lines of ";;;;;;;;;", then the nested function: more than
\* PreambleWindow characters before its `{`.
FillerLines == 21
DocLateFunction ==
    [i \in 1..FillerLines |-> <<";", ";", ";", ";", ";", ";", ";", ";", ";">>] \o DocNestedOneLine
\* "function a() { } function f() { g(); }": a function after another one
DocTwoFunctions ==
    <<KwFunction \o <<" ", "a", "(", ")", " ", "{", " ", "}", " ">> \o LineFunctionF
      \o <<" ", "g", "(", ")", ";", " ", "}">>>>
BraceHeuristicDocuments ==
    {DocFunctionF, DocTopLevel, DocBareBlock, DocNestedOneLine, DocNestedLines,
     DocFunctionInBlock, DocStrayClose, DocLateFunction, DocTwoFunctions}

\* The cursor is put at each of the last MaxCursorOffsets offsets of a document.
MaxCursorOffsets == 40
PositionsOf(doc) ==
    {positionAt(doc, o) : o \in Max(0, Len(GetText(doc)) - MaxCursorOffsets)..Len(GetText(doc))}

\* The outlines a language server without function symbols for the document
\* answers with, and one with a function on the first character.
BraceOutlines ==
    {<<>>,
     <<[name |-> SymbolNames[1], kind |-> "Class", range |-> Rng(Pos(0, 0), Pos(1, 0)), parent |-> 0]>>,
     <<[name |-> SymbolNames[1], kind |-> "Function", range |-> Rng(Pos(0, 0), Pos(0, 1)), parent |-> 0]>>}

InitBraces ==
    /\ scenario = "locate"
    /\ document \in BraceHeuristicDocuments
    /\ ExIdle
    /\ outlineStatus \in {"throws", "undefined", "ok"}
    /\ IF outlineStatus = "ok" THEN outline \in BraceOutlines ELSE outline = <<>>
    /\ position \in PositionsOf(document)
    /\ locResult = NotFound
    /\ locTierB = 0
    /\ locThrew = FALSE
    /\ locPc = "idle"
    /\ CallIdle
    /\ ResIdle
    /\ PanelIdle
    /\ HlIdle
    /\ DecoIdle

SpecBraces == InitBraces /\ [][NextLocate]_vars

\* ------------------------------------------------ claims about the locator
\* The nodes of function, method or constructor kind whose range contains p.
FunctionNodesAt(tbl, p) ==
    {i \in 1..Len(tbl) : /\ tbl[i].kind \in {"Function", "Method", "Constructor"}
                         /\ PosLE(tbl[i].range.start, p)
                         /\ PosLE(p, tbl[i].range.end)}

\* Node i and every node above it contain p.
RECURSIVE ChainContains(_, _, _)
ChainContains(tbl, i, p) ==
    \/ i = 0
    \/ /\ PosLE(tbl[i].range.start, p)
       /\ PosLE(p, tbl[i].range.end)
       /\ ChainContains(tbl, tbl[i].parent, p)

\* Span order of the design: lines first, columns second.
SpanLess(r1, r2) ==
    LET l1 == r1.end.line - r1.start.line
        l2 == r2.end.line - r2.start.line
        c1 == r1.end.character - r1.start.character
        c2 == r2.end.character - r2.start.character
    IN l1 < l2 \/ (l1 = l2 /\ c1 < c2)

C2_SmallestSpan ==
    LET cands == {i \in FunctionNodesAt(outline, position) : ChainContains(outline, i, position)} IN
    (locPc = "done" /\ outlineStatus = "ok" /\ cands # {}) =>
        /\ locResult.found
        /\ \E i \in cands :
              /\ outline[i].range = locResult.range
              /\ \A j \in cands : ~SpanLess(outline[j].range, outline[i].range)

\* C27: in the comparison searchSymbols makes, of two ranges the one that
\* spans fewer lines is the smaller whatever the columns are, and with equal
\* line spans the one of smaller column width is.
C27_LinesDominateColumns ==
    (locPc = "done" /\ outlineStatus = "ok") =>
        \A i, j \in 1..Len(outline) :
            LET ri == outline[i].range
                rj == outline[j].range
                li == ri.end.line - ri.start.line
                lj == rj.end.line - rj.start.line
                ci == ri.end.character - ri.start.character
                cj == rj.end.character - rj.start.character
            IN /\ li < lj => rangeSize(ri) < rangeSize(rj)
               /\ li = lj => (rangeSize(ri) < rangeSize(rj) <=> ci < cj)

\* Brace-depth counting of a text: the number of ch at the offsets a..b.
CountOf(t, a, b, ch) == Cardinality({k \in a..b : CharAt(t, k) = ch})
\* The offsets a..b hold as many `{` as `}`.
Level(t, a, b) == CountOf(t, a, b, "{") = CountOf(t, a, b, "}")
\* The `}` that closes the `{` at offset b: the first `}` after it with the
\* text between the two level; -1 when the block is not closed.
MatchOf(t, b) ==
    LET cs == {j \in (b + 1)..(Len(t) - 1) : CharAt(t, j) = "}" /\ Level(t, b + 1, j - 1)} IN
    IF cs = {} THEN -1 ELSE FirstOf(cs)
\* The `{` before the cursor at offset o that are not closed before it, and
\* the `}` from the cursor on that are not opened from it.
UnmatchedOpensBefore(t, o) ==
    {b \in 0..(o - 1) : CharAt(t, b) = "{" /\ Level(t, b + 1, o - 1)}
UnmatchedClosesFrom(t, o) ==
    {j \in o..(Len(t) - 1) : CharAt(t, j) = "}" /\ Level(t, o, j - 1)}
CursorOffset == offsetAt(document, position)
PosLT(a, b) == PosLE(a, b) /\ a # b

\* C24: whatever the cursor offset, the `{` the backward walk chooses is the
\* one that the `}` the forward walk chooses closes.
C24_ScansDelimitOneBlock ==
    (locPc = "done" /\ locTierB = 1) =>
        LET t == GetText(document)
            c == ForwardClose(t, CursorOffset, 0)
            b == BackwardOpen(t, CursorOffset, 0)
        IN (c # -1 /\ b # -1) => MatchOf(t, b) = c

\* C25: a range of the brace heuristic starts at or before the chosen `{`,
\* which is at or before the cursor, and ends just after a `}` that is at or
\* after the cursor.
C25_RangeContainsCursor ==
    (locPc = "done" /\ locTierB = 1 /\ locResult.found) =>
        LET t == GetText(document)
            b == BackwardOpen(t, CursorOffset, 0)
            e == offsetAt(document, locResult.range.end)
        IN /\ CharAt(t, b) = "{"
           /\ PosLE(locResult.range.start, positionAt(document, b))
           /\ PosLE(positionAt(document, b), position)
           /\ PosLT(position, locResult.range.end)
           /\ CharAt(t, e - 1) = "}"
           /\ CursorOffset <= e - 1
\* The cursor in `z();`, after the inner block of the nested function, which
\* starts after more than PreambleWindow characters: the range runs from
\* `function` to the end of the line.
C25_Witness ==
    /\ locPc = "done"
    /\ locTierB = 1
    /\ document = DocLateFunction
    /\ position = Pos(FillerLines, 32)
    /\ locResult.found
    /\ locResult.range = Rng(Pos(FillerLines, 0), Pos(FillerLines, Len(DocNestedOneLine[1])))

\* C7: the locator never rejects; it calls the brace heuristic once, and
\* returns its value, when the outline call throws, resolves to nothing, or
\* holds no function-kind node containing the cursor; it does not call it
\* when Tier A finds such a node.
C7_NoTierA ==
    \/ outlineStatus \in {"throws", "undefined"}
    \/ Len(outline) = 0
    \/ FunctionNodesAt(outline, position) = {}
C7_TierBFallback ==
    locPc = "done" =>
        /\ ~locThrew
        /\ C7_NoTierA => (locTierB = 1
                          /\ locResult = findEnclosingFunctionByBraces(document, position))
        /\ ~C7_NoTierA => locTierB = 0
\* The outline call threw and the brace heuristic found the function.
C7_Witness ==
    /\ locPc = "done"
    /\ outlineStatus = "throws"
    /\ locTierB = 1
    /\ locResult.found
    /\ locResult.name = <<"f">>

\* C31: a range of the brace heuristic starts where the preamble matched in
\* the (up to) PreambleWindow characters before the chosen `{` begins in the
\* document, also when fewer than PreambleWindow characters precede that `{`.
C31_RangeStartsAtPreamble ==
    (locPc = "done" /\ locTierB = 1 /\ locResult.found) =>
        LET t == GetText(document)
            b == BackwardOpen(t, CursorOffset, 0)
            w == Max(0, b - PreambleWindow)
        IN locResult.range.start = positionAt(document, w + PreambleMatchIndex(Slice(t, w, b)))

\* C26: when Tier A finds nothing and no unmatched `}` follows the cursor, or
\* no unmatched `{` precedes it, or the 200 characters before the nearest
\* such `{` hold no function preamble, the locator returns NotFound and does
\* not throw.
C26_NotFoundWithoutEnclosingFunction ==
    (locPc = "done" /\ C7_NoTierA) =>
        LET t == GetText(document)
            opens == UnmatchedOpensBefore(t, CursorOffset)
            b == CHOOSE x \in opens : \A y \in opens : y <= x
        IN /\ ~locThrew
           /\ (\/ UnmatchedClosesFrom(t, CursorOffset) = {}
               \/ opens = {}
               \/ PreambleMatchIndex(Slice(t, Max(0, b - PreambleWindow), b)) = -1)
              => locResult = NotFound

\* ======================================================================
\* parseFunctionCallsInRange (parser.ts) and the `unique` filter (panel.ts)
\* ======================================================================
\* The set `keywords` of isKeywordOrBuiltin.
keywords == {
    <<"i", "f">>, <<"e", "l", "s", "e">>, <<"f", "o", "r">>, <<"w", "h", "i", "l", "e">>,
    <<"d", "o">>, <<"s", "w", "i", "t", "c", "h">>, <<"c", "a", "s", "e">>,
    <<"b", "r", "e", "a", "k">>, <<"c", "o", "n", "t", "i", "n", "u", "e">>,
    <<"r", "e", "t", "u", "r", "n">>, <<"t", "h", "r", "o", "w">>, <<"t", "r", "y">>,
    <<"c", "a", "t", "c", "h">>, <<"f", "i", "n", "a", "l", "l", "y">>, <<"n", "e", "w">>,
    <<"d", "e", "l", "e", "t", "e">>, <<"t", "y", "p", "e", "o", "f">>,
    <<"i", "n", "s", "t", "a", "n", "c", "e", "o", "f">>, <<"i", "n">>, <<"o", "f">>,
    <<"v", "o", "i", "d">>, <<"t", "h", "i", "s">>, <<"c", "l", "a", "s", "s">>,
    <<"e", "x", "t", "e", "n", "d", "s">>, <<"s", "u", "p", "e", "r">>,
    <<"i", "m", "p", "o", "r", "t">>, <<"e", "x", "p", "o", "r", "t">>, <<"f", "r", "o", "m">>,
    <<"a", "s">>, <<"d", "e", "f", "a", "u", "l", "t">>,
    <<"f", "u", "n", "c", "t", "i", "o", "n">>, <<"c", "o", "n", "s", "t">>, <<"l", "e", "t">>,
    <<"v", "a", "r">>, <<"a", "s", "y", "n", "c">>, <<"a", "w", "a", "i", "t">>,
    <<"y", "i", "e", "l", "d">>, <<"s", "t", "a", "t", "i", "c">>, <<"g", "e", "t">>,
    <<"s", "e", "t">>, <<"c", "o", "n", "s", "t", "r", "u", "c", "t", "o", "r">>,
    <<"c", "o", "n", "s", "o", "l", "e">>, <<"w", "i", "n", "d", "o", "w">>,
    <<"d", "o", "c", "u", "m", "e", "n", "t">>, <<"p", "a", "r", "s", "e", "I", "n", "t">>,
    <<"p", "a", "r", "s", "e", "F", "l", "o", "a", "t">>, <<"i", "s", "N", "a", "N">>,
    <<"A", "r", "r", "a", "y">>, <<"O", "b", "j", "e", "c", "t">>,
    <<"S", "t", "r", "i", "n", "g">>, <<"N", "u", "m", "b", "e", "r">>,
    <<"B", "o", "o", "l", "e", "a", "n">>, <<"E", "r", "r", "o", "r">>,
    <<"R", "e", "g", "E", "x", "p">>, <<"M", "a", "t", "h">>, <<"D", "a", "t", "e">>,
    <<"J", "S", "O", "N">>, <<"P", "r", "o", "m", "i", "s", "e">>, <<"M", "a", "p">>,
    <<"S", "e", "t">>, <<"W", "e", "a", "k", "M", "a", "p">>,
    <<"W", "e", "a", "k", "S", "e", "t">>, <<"S", "y", "m", "b", "o", "l">>,
    <<"B", "i", "g", "I", "n", "t">>, <<"P", "r", "o", "x", "y">>,
    <<"R", "e", "f", "l", "e", "c", "t">>, <<"D", "a", "t", "a", "V", "i", "e", "w">>,
    <<"A", "r", "r", "a", "y", "B", "u", "f", "f", "e", "r">>,
    <<"T", "y", "p", "e", "d", "A", "r", "r", "a", "y">>, <<"r", "e", "q", "u", "i", "r", "e">>,
    <<"e", "x", "p", "o", "r", "t", "s">>, <<"m", "o", "d", "u", "l", "e">>,
    <<"p", "r", "o", "c", "e", "s", "s">>, <<"g", "l", "o", "b", "a", "l">>,
    <<"s", "e", "t", "I", "n", "t", "e", "r", "v", "a", "l">>,
    <<"s", "e", "t", "T", "i", "m", "e", "o", "u", "t">>,
    <<"c", "l", "e", "a", "r", "I", "n", "t", "e", "r", "v", "a", "l">>,
    <<"c", "l", "e", "a", "r", "T", "i", "m", "e", "o", "u", "t">>}

\* isKeywordOrBuiltin(name)
isKeywordOrBuiltinNever(name) == FALSE
isKeywordOrBuiltin(name) == name \in keywords

\* [a-zA-Z_$] and [\w$]
IdStartChars == Letters \cup {"_", "$"}
IdChars == WordChars \cup {"$"}

\* \b at offset i of t: exactly one of the characters around i is a \w.
WordBoundary(t, i) == (CharAt(t, i - 1) \in WordChars) # (CharAt(t, i) \in WordChars)

\* The end of the longest run of characters of C from offset i.
RunEnd(t, i, C) == CHOOSE j \in i..Len(t) :
    AllIn(t, i, j, C) /\ (j = Len(t) \/ t[j + 1] \notin C)

\* /\b([a-zA-Z_$][\w$]*)\s*\(/ tried at offset i: the match, or NotFound.  Both
\* runs are taken whole: a shorter identifier or a shorter run of spaces is
\* followed by a character that is neither a space nor `(`.
CallMatchAt(t, i) ==
    IF i < Len(t) /\ WordBoundary(t, i) /\ CharAt(t, i) \in IdStartChars
    THEN LET idEnd == RunEnd(t, i + 1, IdChars)
             wsEnd == RunEnd(t, idEnd, SpaceChars)
         IN IF CharAt(t, wsEnd) = "("
            THEN [found |-> TRUE, index |-> i, name |-> SubSeq(t, i + 1, idEnd), end |-> wsEnd + 1]
            ELSE NotFound
    ELSE NotFound

\* functionCallRegex.exec(rangeText) with lastIndex = from: the leftmost match
\* starting at or after `from`.
CallExec(t, from) ==
    LET starts == {i \in from..(Len(t) - 1) : CallMatchAt(t, i).found} IN
    IF starts # {} THEN CallMatchAt(t, CHOOSE i \in starts : \A j \in starts : i <= j)
    ELSE NotFound

\* The FunctionCall pushed for a match.
FunctionCallRelative(doc, startOffset, m) ==
    LET pos == positionAt(doc, m.index) IN
    [name |-> m.name,
     range |-> Rng(pos, Pos(pos.line, pos.character + Len(m.name))),
     line |-> pos.line,
     character |-> pos.character]
FunctionCall(doc, startOffset, m) ==
    LET pos == positionAt(doc, startOffset + m.index) IN
    [name |-> m.name,
     range |-> Rng(pos, Pos(pos.line, pos.character + Len(m.name))),
     line |-> pos.line,
     character |-> pos.character]

\* The while loop of parseFunctionCallsInRange from lastIndex = from.
RECURSIVE CallLoop(_, _, _, _)
CallLoop(doc, startOffset, t, from) ==
    LET m == CallExec(t, from) IN
    IF ~m.found THEN <<>>
    ELSE (IF isKeywordOrBuiltin(m.name) THEN <<>> ELSE <<FunctionCall(doc, startOffset, m)>>)
         \o CallLoop(doc, startOffset, t, m.end)

parseFunctionCallsInRange(doc, range) ==
    LET startOffset == offsetAt(doc, range.start)
        endOffset == offsetAt(doc, range.end)
        rangeText == Slice(GetText(doc), startOffset, endOffset)
    IN CallLoop(doc, startOffset, rangeText, 0)

\* The same loop over the whole text of the document.
parseFunctionCalls(doc) == CallLoop(doc, 0, GetText(doc), 0)

\* `seen.has(c.name)`
SeenNever(seen, name) == FALSE
SeenHas(seen, name) == name \in seen

\* `c.name === enclosingName`
IsEnclosingNever(name, enclosingName) == FALSE
IsEnclosing(name, enclosingName) == name = enclosingName

\* calls.filter(...) of updateForEditor from the k-th call on.
RECURSIVE UniqueFilter(_, _, _, _)
UniqueFilter(cs, enclosingName, k, seen) ==
    IF k > Len(cs) THEN <<>>
    ELSE IF IsEnclosing(cs[k].name, enclosingName) THEN UniqueFilter(cs, enclosingName, k + 1, seen)
    ELSE IF SeenHas(seen, cs[k].name) THEN UniqueFilter(cs, enclosingName, k + 1, seen)
    ELSE <<cs[k]>> \o UniqueFilter(cs, enclosingName, k + 1, seen \cup {cs[k].name})

\* updateForEditor, from the enclosing function to `unique`.
CollectUniqueCalls ==
    /\ scenario = "calls"
    /\ callPc = "idle"
    /\ calls' = parseFunctionCallsInRange(document, scope.range)
    /\ unique' = UniqueFilter(calls', scope.name, 1, {})
    /\ callPc' = "done"
    /\ UNCHANGED <<callFrame, scope, docCalls, docPc>>

\* parseFunctionCalls on the document.
ParseDocumentCalls ==
    /\ scenario = "calls"
    /\ docPc = "idle"
    /\ docCalls' = parseFunctionCalls(document)
    /\ docPc' = "done"
    /\ UNCHANGED <<callFrame, scope, calls, unique, callPc>>

\* ---------------------------------------------------- the scope texts
\* The most pieces a scope text is made of.
MaxPieces == 5
NameFoo == <<"f", "o", "o">>
NameBar == <<"b", "a", "r">>
NameOuter == <<"o", "u", "t", "e", "r">>
ScopePieces == {NameFoo, NameBar, <<"i", "f">>, <<"(">>, <<";">>, <<" ">>, <<NL>>}

RECURSIVE Concat(_)
Concat(ps) == IF Len(ps) = 0 THEN <<>> ELSE ps[1] \o Concat(Tail(ps))

\* The lines of a text (the inverse of JoinLines).
RECURSIVE SplitLines(_)
SplitLines(t) ==
    LET k == IndexOf(t, NL) IN
    IF k = -1 THEN <<t>> ELSE <<SubSeq(t, 1, k)>> \o SplitLines(SubSeq(t, k + 2, Len(t)))

ScopeTexts == {Concat(ps) : ps \in UNION {[1..n -> ScopePieces] : n \in 0..MaxPieces}}

\* "foo(); bar(); foo();"
TextFooBarFoo ==
    NameFoo \o <<"(", ")", ";", " ">> \o NameBar \o <<"(", ")", ";", " ">> \o NameFoo \o <<"(", ")", ";">>

\* The end of the document.
DocEnd(doc) == Pos(LineCount(doc) - 1, Len(doc[LineCount(doc)]))

InitCalls ==
    /\ scenario = "calls"
    /\ document \in {SplitLines(t) : t \in ScopeTexts \cup {TextFooBarFoo}}
    /\ ExIdle
    /\ LocIdle
    /\ \E s \in {Pos(0, 0), Pos(0, 1)}, e \in {DocEnd(document), Pos(0, 5)}, n \in {NameFoo, NameOuter} :
          scope = [range |-> Rng(s, e), name |-> n]
    /\ calls = <<>>
    /\ unique = <<>>
    /\ callPc = "idle"
    /\ docCalls = <<>>
    /\ docPc = "idle"
    /\ ResIdle
    /\ PanelIdle
    /\ HlIdle
    /\ DecoIdle

NextCalls == CollectUniqueCalls \/ ParseDocumentCalls

SpecCalls == InitCalls /\ [][NextCalls]_vars

\* ------------------------------------------------- claims about the calls
\* The text of the scope and the matches of the call pattern in it, in order.
ScopeStart == offsetAt(document, scope.range.start)
ScopeText == Slice(GetText(document), ScopeStart, offsetAt(document, scope.range.end))
RECURSIVE RawMatches(_, _)
RawMatches(t, from) ==
    LET m == CallExec(t, from) IN IF ~m.found THEN <<>> ELSE <<m>> \o RawMatches(t, m.end)

ScopeEnd == offsetAt(document, scope.range.end)

\* C30: every call parseFunctionCallsInRange returns for the range lies in the
\* range: its position is that of offset(range start) + match index, its range
\* starts there and spans the name's length on that one line, where the
\* document reads the name, and line and character are those of the start.
C30_CallSitesInsideRange ==
    callPc = "done" =>
        \A k \in 1..Len(calls) :
            LET c == calls[k]
                a == offsetAt(document, c.range.start)
            IN /\ c.range.start = Pos(c.line, c.character)
               /\ c.range.end = Pos(c.line, c.character + Len(c.name))
               /\ c.line < LineCount(document)
               /\ c.character + Len(c.name) <= Len(LineAt(document, c.line))
               /\ SubSeq(LineAt(document, c.line), c.character + 1, c.character + Len(c.name)) = c.name
               /\ ScopeStart <= a
               /\ a + Len(c.name) <= ScopeEnd
               /\ \E i \in 0..Len(ScopeText) :
                     /\ a = ScopeStart + i
                     /\ CallMatchAt(ScopeText, i).found
                     /\ CallMatchAt(ScopeText, i).name = c.name
\* `(foo(bar(` with the range from column 1 to column 5: foo is returned, at
\* column 1; `bar(` lies after the range and is a call of the whole document.
C30_Witness ==
    /\ callPc = "done"
    /\ docPc = "done"
    /\ document = <<<<"(">> \o NameFoo \o <<"(">> \o NameBar \o <<"(">>>>
    /\ scope.range = Rng(Pos(0, 1), Pos(0, 5))
    /\ Len(calls) = 1
    /\ calls[1].name = NameFoo
    /\ calls[1].character = 1
    /\ Len(docCalls) = 2

\* C3: the calls handed to resolution hold every callee name of the scope text
\* that is neither denylisted nor the scope's own name exactly once, at its
\* first occurrence, in order of first occurrence; foo then bar for
\* "foo(); bar(); foo();".
C3_UniqueFirstOccurrence ==
    callPc = "done" =>
        LET raw == RawMatches(ScopeText, 0)
            eligible == {k \in 1..Len(raw) : raw[k].name \notin keywords /\ raw[k].name # scope.name}
            first(n) == CHOOSE k \in eligible :
                            raw[k].name = n /\ \A j \in eligible : raw[j].name = n => k <= j
        IN /\ {unique[k].name : k \in 1..Len(unique)} = {raw[k].name : k \in eligible}
           /\ \A a, b \in 1..Len(unique) : a # b => unique[a].name # unique[b].name
           /\ \A k \in 1..Len(unique) :
                 LET pos == positionAt(document, ScopeStart + raw[first(unique[k].name)].index) IN
                 unique[k].line = pos.line /\ unique[k].character = pos.character
           /\ \A a, b \in 1..Len(unique) :
                 a < b => first(unique[a].name) < first(unique[b].name)
           /\ (ScopeText = TextFooBarFoo /\ scope.name = NameOuter)
                 => (Len(unique) = 2 /\ unique[1].name = NameFoo /\ unique[2].name = NameBar)
\* The example: three matches, two calls kept.
C3_Witness ==
    /\ callPc = "done"
    /\ GetText(document) = TextFooBarFoo
    /\ scope.name = NameOuter
    /\ scope.range.start = Pos(0, 0)
    /\ Len(calls) = 3
    /\ Len(unique) = 2

\* The names of a list of calls.
NamesOf(cs) == {cs[k].name : k \in 1..Len(cs)}

\* C19: no denylisted name (if, for, while, return, console, ...) is among the
\* calls parseFunctionCallsInRange or parseFunctionCalls returns, whatever the
\* text, although `if(` matches the pattern.
C19_DenylistNeverEmitted ==
    /\ \A k \in 1..Len(calls) : calls[k].name \notin keywords
    /\ \A k \in 1..Len(docCalls) : docCalls[k].name \notin keywords
    /\ {KwIf, <<"f", "o", "r">>, <<"w", "h", "i", "l", "e">>, KwReturn,
        <<"c", "o", "n", "s", "o", "l", "e">>} \subseteq keywords
\* Both parsers have run on a text in which `if(` matches the pattern and a
\* call follows it.
C19_Witness ==
    /\ callPc = "done"
    /\ docPc = "done"
    /\ scope.range.start = Pos(0, 0)
    /\ \E k \in 1..Len(RawMatches(ScopeText, 0)) : RawMatches(ScopeText, 0)[k].name = KwIf
    /\ Len(calls) > 0
    /\ Len(docCalls) > 0

\* C20: the calls handed to resolution never hold the enclosing scope's own
\* name, whether it comes from a recursive call or from the scope's header.
C20_NoSelfCall ==
    \A k \in 1..Len(unique) : unique[k].name # scope.name
\* The scope text calls the scope itself and another function.
C20_Witness ==
    /\ callPc = "done"
    /\ scope.name = NameFoo
    /\ NameFoo \in NamesOf(calls)
    /\ NamesOf(unique) = {NameBar}

\* ======================================================================
\* resolveFunctionDefinition, findDefinitionInDocument (resolver.ts)
\* ======================================================================
KwConst == <<"c", "o", "n", "s", "t">>

\* `.*`: any run without a line break.
DotStar(t, P) ==
    IF P = {} THEN {}
    ELSE {j \in 0..Len(t) : \E i \in P : i <= j /\ \A k \in (i + 1)..j : t[k] # NL}

\* The four patterns of findDefinitionInDocument tried at offset i: the offsets
\* at which a match can end.  escapeRegex makes the name a literal.
\*   1  function\s+NAME\s*\(
\*   2  const\s+NAME\s*=.*=>
\*   3  NAME\s*\(.*\)\s*{
\*   4  NAME\s*\(.*\)\s*:\s*
DefinitionPatternEnds(t, i, k, name) ==
    LET call == DotStar(t, Lit(t, Star(t, Lit(t, {i}, name), SpaceChars), <<"(">>))
        closed == Star(t, Lit(t, call, <<")">>), SpaceChars)
    IN CASE k = 1 -> Lit(t, Star(t, Lit(t, Plus(t, Lit(t, {i}, KwFunction), SpaceChars), name),
                                 SpaceChars), <<"(">>)
         [] k = 2 -> Lit(t, DotStar(t, Lit(t, Star(t, Lit(t, Plus(t, Lit(t, {i}, KwConst), SpaceChars),
                                                          name), SpaceChars), <<"=">>)),
                         <<"=", ">">>)
         [] k = 3 -> Lit(t, closed, <<"{">>)
         [] OTHER -> Star(t, Lit(t, closed, <<":">>), SpaceChars)

\* The order in which the patterns are tried.
PatternOrderReversed == <<4, 3, 2, 1>>
PatternOrder == <<1, 2, 3, 4>>

SetMax(S) == CHOOSE x \in S : \A y \in S : y <= x

\* pattern.exec(text) with lastIndex = from: the leftmost match at or after
\* `from`, with the end the greedy quantifiers give it.
DefinitionExec(t, from, k, name) ==
    LET starts == {i \in from..Len(t) : DefinitionPatternEnds(t, i, k, name) # {}} IN
    IF starts # {}
    THEN LET i == CHOOSE i \in starts : \A j \in starts : i <= j
         IN [found |-> TRUE, index |-> i, end |-> SetMax(DefinitionPatternEnds(t, i, k, name))]
    ELSE NotFound

\* The while loop over the matches of pattern k, from lastIndex = from.
RECURSIVE DefinitionByPattern(_, _, _, _)
DefinitionByPattern(doc, name, k, from) ==
    LET m == DefinitionExec(GetText(doc), from, k, name) IN
    IF ~m.found THEN NotFound
    ELSE LET startPos == positionAt(doc, m.index)
             lineNum == startPos.line
             c == extractFunctionContent(doc, lineNum)
         IN IF c.found
            THEN [found |-> TRUE, name |-> name, uri |-> "src",
                  range |-> Rng(startPos, startPos), content |-> c.content,
                  startLine |-> lineNum,
                  endLine |-> lineNum + SplitLength(c.content) - 1]
            ELSE DefinitionByPattern(doc, name, k, m.end)

\* The for loop over the patterns, from the n-th of the order on.
RECURSIVE DefinitionFromPattern(_, _, _)
DefinitionFromPattern(doc, name, n) ==
    IF n > Len(PatternOrder) THEN NotFound
    ELSE LET d == DefinitionByPattern(doc, name, PatternOrder[n], 0) IN
         IF d.found THEN d ELSE DefinitionFromPattern(doc, name, n + 1)

findDefinitionInDocument(doc, name) == DefinitionFromPattern(doc, name, 1)

\* ------------------------------------------------------ the index tier
\* The filter of resolveFunctionDefinition: function and method symbols.
IsAnySymbol(sym) == TRUE
IsFunctionSymbol(sym) == sym.kind = "Function" \/ sym.kind = "Method"

RECURSIVE FilterFunctionSymbols(_)
FilterFunctionSymbols(syms) ==
    IF Len(syms) = 0 THEN <<>>
    ELSE (IF IsFunctionSymbol(syms[1]) THEN <<syms[1]>> ELSE <<>>)
         \o FilterFunctionSymbols(Tail(syms))

\* `const symbol = functionSymbols[0]`
LastSymbol(fs) == fs[Len(fs)]
FirstSymbol(fs) == fs[1]

\* doc.getText(new vscode.Range(range.start, range.end))
GetTextOfDocument(doc, r) == GetText(doc)
GetTextRange(doc, r) == Slice(GetText(doc), offsetAt(doc, r.start), offsetAt(doc, r.end))

\* The other document of the workspace:
\*   "function helper() {", "  return 1;", "}", "helper;"
NameHelper == <<"h", "e", "l", "p", "e", "r">>
DocLib == <<KwFunction \o <<" ">> \o NameHelper \o <<"(", ")", " ", "{">>,
            LineReturn1,
            <<"}">>,
            NameHelper \o <<";">>>>

\* vscode.workspace.openTextDocument(uri): "src" is the originating document,
\* "lib" the other one; "gone" cannot be opened.
CanOpen(uri) == uri \in {"src", "lib"}
OpenTextDocument(src, uri) == IF uri = "src" THEN src ELSE DocLib

\* The Definition built from the chosen symbol and its document.
DefinitionOfSymbolUnchecked(name, sym, doc) ==
    LET c == extractFunctionContent(doc, sym.range.start.line)
    IN [found |-> TRUE, name |-> name, uri |-> sym.uri, range |-> sym.range,
        content |-> IF c.found THEN c.content
                    ELSE Slice(GetText(doc), offsetAt(doc, sym.range.start), offsetAt(doc, sym.range.end)),
        startLine |-> sym.range.start.line, endLine |-> sym.range.end.line]
DefinitionOfSymbol(name, sym, doc) ==
    LET c == extractFunctionContent(doc, sym.range.start.line)
        content == IF c.found THEN c.content ELSE GetTextRange(doc, sym.range)
    IN IF Len(content) = 0 THEN NotFound
       ELSE [found |-> TRUE, name |-> name, uri |-> sym.uri, range |-> sym.range,
             content |-> content,
             startLine |-> sym.range.start.line, endLine |-> sym.range.end.line]

\* What a path of the resolver ends in.
Resolved(d, localCalls) == [threw |-> FALSE, local |-> localCalls, result |-> d]

\* `catch (error) { console.error(...); return null; }`
OnResolveErrorRethrow(doc, name) == [threw |-> TRUE, local |-> 0, result |-> NotFound]
OnResolveError(doc, name) == Resolved(NotFound, 0)

\* `if (!symbols || symbols.length === 0) return findDefinitionInDocument(...)`
OnNoIndexSymbols(doc, name) == Resolved(findDefinitionInDocument(doc, name), 1)

\* `if (functionSymbols.length === 0) return null`
OnNoFunctionSymbols(doc, name) == Resolved(NotFound, 0)

\* resolveFunctionDefinition is called; it awaits the workspace symbols.
ResolveCall ==
    /\ scenario = "resolve"
    /\ resPc = "idle"
    /\ resPc' = "awaitSymbols"
    /\ UNCHANGED <<resFrame, functionName, indexStatus, index, resSymbol, resResult,
                   resLocalCalls, resThrew>>

ResFinish(r) ==
    /\ resResult' = r.result
    /\ resLocalCalls' = resLocalCalls + r.local
    /\ resThrew' = r.threw
    /\ resPc' = "done"
    /\ UNCHANGED <<resFrame, functionName, indexStatus, index>>

\* The workspace symbol query fails.
IndexThrows ==
    /\ resPc = "awaitSymbols"
    /\ indexStatus = "throws"
    /\ ResFinish(OnResolveError(document, functionName))
    /\ UNCHANGED resSymbol

\* The query resolves to undefined or to an empty array.
IndexEmpty ==
    /\ resPc = "awaitSymbols"
    /\ indexStatus = "undefined" \/ (indexStatus = "ok" /\ Len(index) = 0)
    /\ ResFinish(OnNoIndexSymbols(document, functionName))
    /\ UNCHANGED resSymbol

\* The query resolves to symbols none of which is a function or a method.
IndexNoFunctions ==
    /\ resPc = "awaitSymbols"
    /\ indexStatus = "ok"
    /\ Len(index) > 0
    /\ Len(FilterFunctionSymbols(index)) = 0
    /\ ResFinish(OnNoFunctionSymbols(document, functionName))
    /\ UNCHANGED resSymbol

\* The query resolves to a function symbol: its document is opened.
IndexPicksSymbol ==
    /\ resPc = "awaitSymbols"
    /\ indexStatus = "ok"
    /\ Len(FilterFunctionSymbols(index)) > 0
    /\ resSymbol' = FirstSymbol(FilterFunctionSymbols(index))
    /\ resPc' = "awaitOpen"
    /\ UNCHANGED <<resFrame, functionName, indexStatus, index, resResult, resLocalCalls, resThrew>>

\* openTextDocument rejects.
OpenFails ==
    /\ resPc = "awaitOpen"
    /\ ~CanOpen(resSymbol.uri)
    /\ ResFinish(OnResolveError(document, functionName))
    /\ UNCHANGED resSymbol

\* openTextDocument resolves: the body is extracted.
OpenSucceeds ==
    /\ resPc = "awaitOpen"
    /\ CanOpen(resSymbol.uri)
    /\ ResFinish(Resolved(DefinitionOfSymbol(functionName, resSymbol,
                                            OpenTextDocument(document, resSymbol.uri)), 0))
    /\ UNCHANGED resSymbol

\* ------------------------------------------------------ the resolver's inputs
\* The most symbols an index answer holds.
MaxIndex == 2

\* "function outer() {", "  helper();", "}"
LinesOuterCallsHelper ==
    <<KwFunction \o <<" ">> \o NameOuter \o <<"(", ")", " ", "{">>,
      <<" ", " ">> \o NameHelper \o <<"(", ")", ";">>,
      <<"}">>>>
\* ... then "function helper() {", "  return 42;", "}"
DocLocalFunction ==
    LinesOuterCallsHelper \o
    <<KwFunction \o <<" ">> \o NameHelper \o <<"(", ")", " ", "{">>,
      <<" ", " ">> \o KwReturn \o <<" ", "4", "2", ";">>,
      <<"}">>>>
\* ... then "const helper = () => {", "}"
DocLocalArrow ==
    LinesOuterCallsHelper \o
    <<KwConst \o <<" ">> \o NameHelper \o <<" ", "=", " ", "(", ")", " ", "=", ">", " ", "{">>,
      <<"}">>>>
\* ... then "function helper() {", "  return 42;" (still being typed)
DocLocalUnterminated ==
    <<<<" ", " ">> \o NameHelper \o <<"(", ")", ";">>,
      KwFunction \o <<" ">> \o NameHelper \o <<"(", ")", " ", "{">>,
      <<" ", " ">> \o KwReturn \o <<" ", "4", "2", ";">>>>
\* only the call
DocNoDefinition == LinesOuterCallsHelper
\* "helper() {", "}", "function helper() {", "  return 42;": a method
\* shorthand, then a declaration still being typed
DocShorthandThenUnterminated ==
    <<NameHelper \o <<"(", ")", " ", "{">>,
      <<"}">>,
      KwFunction \o <<" ">> \o NameHelper \o <<"(", ")", " ", "{">>,
      <<" ", " ">> \o KwReturn \o <<" ", "4", "2", ";">>>>
ResolveDocuments == {DocLocalFunction, DocLocalArrow, DocLocalUnterminated, DocNoDefinition,
                     DocShorthandThenUnterminated}

IndexKinds == {"Function", "Method", "Variable"}
IndexUris == {"src", "lib", "gone"}
\* a function of three lines; a zero-width range on a line without braces; that
\* line up to its seventh column
IndexRanges == {Rng(Pos(0, 0), Pos(2, 1)), Rng(Pos(3, 0), Pos(3, 0)), Rng(Pos(3, 0), Pos(3, 7))}
\* The index answers a query with symbols whose names match it loosely:
\* `helpers` for the query `helper`.
NameHelpers == NameHelper \o <<"s">>
IndexNames == {NameHelper, NameHelpers}
IndexSymbols == [name : IndexNames, kind : IndexKinds, uri : IndexUris, range : IndexRanges]

InitResolve ==
    /\ scenario = "resolve"
    /\ document \in ResolveDocuments
    /\ ExIdle
    /\ LocIdle
    /\ CallIdle
    /\ functionName = NameHelper
    /\ indexStatus \in {"throws", "undefined", "ok"}
    /\ IF indexStatus = "ok"
       THEN index \in UNION {[1..n -> IndexSymbols] : n \in 0..MaxIndex}
       ELSE index = <<>>
    /\ resSymbol = NotFound
    /\ resResult = NotFound
    /\ resLocalCalls = 0
    /\ resThrew = FALSE
    /\ resPc = "idle"
    /\ PanelIdle
    /\ HlIdle
    /\ DecoIdle

NextResolve ==
    \/ ResolveCall
    \/ IndexThrows
    \/ IndexEmpty
    \/ IndexNoFunctions
    \/ IndexPicksSymbol
    \/ OpenFails
    \/ OpenSucceeds

SpecResolve == InitResolve /\ [][NextResolve]_vars

\* ------------------------------------------------ claims about the resolver
\* The places of the function and method symbols in the index answer.
FunctionPlaces == {k \in 1..Len(index) : index[k].kind \in {"Function", "Method"}}
\* The first of them.
IndexedSymbol == index[CHOOSE k \in FunctionPlaces : \A j \in FunctionPlaces : k <= j]
\* The body of the indexed symbol in its home document, else the text of its range.
IndexedContent ==
    LET home == IF IndexedSymbol.uri = "src" THEN document ELSE DocLib
        body == extractFunctionContent(home, IndexedSymbol.range.start.line)
    IN IF body.found THEN body.content
       ELSE Slice(GetText(home), offsetAt(home, IndexedSymbol.range.start),
                  offsetAt(home, IndexedSymbol.range.end))
IndexHasFunction == indexStatus = "ok" /\ FunctionPlaces # {}

\* C4, as claimed: with a function or method symbol in the index answer, the
\* resolver returns a Definition built from that symbol's document and body,
\* and never consults the local tier.
C4_IndexSymbolWins ==
    (resPc = "done" /\ IndexHasFunction) =>
        /\ resLocalCalls = 0
        /\ resResult.found
        /\ resResult.uri = IndexedSymbol.uri
        /\ resResult.range = IndexedSymbol.range
        /\ resResult.content = IndexedContent
\* C4, amended: the resolver never consults the local tier, and returns
\* NotFound when the symbol's document cannot be opened or neither a body nor
\* any text of the symbol's range is there, and otherwise the Definition built
\* from the first such symbol, its document and its body.
C4_IndexSymbolWinsOrNotFound ==
    (resPc = "done" /\ IndexHasFunction) =>
        /\ resLocalCalls = 0
        /\ ~resThrew
        /\ IF IndexedSymbol.uri = "gone" \/ Len(IndexedContent) = 0
           THEN resResult = NotFound
           ELSE /\ resResult.found
                /\ resResult.name = functionName
                /\ resResult.uri = IndexedSymbol.uri
                /\ resResult.range = IndexedSymbol.range
                /\ resResult.content = IndexedContent
\* A variable symbol first, then the function symbol of the other document,
\* while the originating document holds a definition of its own.
C4_Witness ==
    /\ resPc = "done"
    /\ document = DocLocalFunction
    /\ Len(index) = 2
    /\ index[1].kind = "Variable"
    /\ index[2].kind = "Function"
    /\ index[2].uri = "lib"
    /\ resResult.found
    /\ resResult.uri = "lib"
    /\ Includes(resResult.content, KwReturn \o <<" ", "1", ";">>)
    /\ resLocalCalls = 0

\* C5: the local tier decides the result exactly when the index answer holds
\* no function or method symbol (it is empty, or holds other kinds only).
C5_LocalTierWhenNoFunctionSymbol ==
    resPc = "done" =>
        /\ (indexStatus # "throws" /\ ~IndexHasFunction)
              => resResult = findDefinitionInDocument(document, functionName)
        /\ IndexHasFunction => resLocalCalls = 0

\* C6: when the symbol query or the opening of the symbol's document fails,
\* the resolver does not reject and returns what the local tier finds in the
\* originating document.
C6_ErrorFallsBackToLocal ==
    (/\ resPc = "done"
     /\ \/ indexStatus = "throws"
        \/ (resSymbol # NotFound /\ ~CanOpen(resSymbol.uri)))
    => (~resThrew /\ resResult = findDefinitionInDocument(document, functionName))

\* C21: of several function or method symbols in the index answer the
\* resolver opens the first in the order of the answer, whatever follows it
\* and whatever other kinds precede it.
C21_FirstInIndexOrder ==
    /\ (resPc \in {"awaitOpen", "done"} /\ IndexHasFunction) => resSymbol = IndexedSymbol
    /\ (resPc = "done" /\ IndexHasFunction /\ resResult.found) =>
          (resResult.uri = IndexedSymbol.uri /\ resResult.range = IndexedSymbol.range)
\* Two function-kind symbols of different documents; the Definition is of the
\* first one's document.
C21_Witness ==
    /\ resPc = "done"
    /\ Len(index) = 2
    /\ index[1].kind = "Method" /\ index[1].uri = "lib"
    /\ index[2].kind = "Function" /\ index[2].uri = "src"
    /\ index[1].range # index[2].range
    /\ resResult.found
    /\ resResult.uri = "lib"
    /\ resResult.range = index[1].range

\* C22: a Definition the resolver returns has content that is not empty; when
\* the body and the text of the symbol's range are both empty it returns
\* NotFound.
C22_ContentNonEmpty ==
    resPc = "done" =>
        /\ resResult.found => Len(resResult.content) > 0
        /\ (IndexHasFunction /\ IndexedSymbol.uri # "gone" /\ Len(IndexedContent) = 0)
              => resResult = NotFound
\* The symbol has an empty range on a line from which no block opens.
C22_Witness ==
    /\ resPc = "done"
    /\ IndexHasFunction
    /\ IndexedSymbol.uri = "lib"
    /\ IndexedSymbol.range = Rng(Pos(3, 0), Pos(3, 0))
    /\ resResult = NotFound

\* The patterns of the local tier, by shape: the offsets at which shape k matches.
ShapeMatchStarts(t, k, name) == {i \in 0..Len(t) : DefinitionPatternEnds(t, i, k, name) # {}}
ShapesMatching(t, name) == {k \in 1..4 : ShapeMatchStarts(t, k, name) # {}}
LocalTierDecides == indexStatus = "undefined" \/ (indexStatus = "ok" /\ Len(index) = 0)

\* C28: the Definition of the local tier starts at a match of the first shape,
\* in the order (a) to (d), that matches anywhere in the document; when no
\* shape matches the result is NotFound.
C28_FirstShapeWins ==
    (resPc = "done" /\ LocalTierDecides) =>
        LET t == GetText(document)
            shapes == ShapesMatching(t, functionName)
        IN IF shapes = {} THEN resResult = NotFound
           ELSE resResult.found =>
                  \E i \in ShapeMatchStarts(t, FirstOf(shapes), functionName) :
                      resResult.range = Rng(positionAt(document, i), positionAt(document, i))

\* C32: a Definition of the index tier for the name N is built from an index
\* symbol whose name is N.
C32_IndexSymbolNamedAsCalled ==
    (resPc = "done" /\ IndexHasFunction /\ resResult.found) =>
        /\ resResult.name = functionName
        /\ resSymbol.name = functionName

\* The document a Definition points into.
HomeOf(d) == IF d.uri = "src" THEN document ELSE DocLib

\* C33: a Definition has startLine <= endLine, content of endLine - startLine
\* + 1 lines, and, when a block is balanced from startLine, endLine on the
\* line of the `}` that closes it.
C33_LinesOfDefinition ==
    (resPc = "done" /\ resResult.found) =>
        /\ resResult.startLine <= resResult.endLine
        /\ SplitLength(resResult.content) = resResult.endLine - resResult.startLine + 1
        /\ PositiveBalancePoints(TextFrom(HomeOf(resResult), resResult.startLine)) # {}
             => resResult.endLine = BalancingLine(HomeOf(resResult), resResult.startLine)

\* The document of the indexed symbol.
IndexedHome == IF IndexedSymbol.uri = "src" THEN document ELSE DocLib
\* The text of that document spanned by the symbol's range.
IndexedRawText ==
    Slice(GetText(IndexedHome), offsetAt(IndexedHome, IndexedSymbol.range.start),
          offsetAt(IndexedHome, IndexedSymbol.range.end))

\* C29: when no `}` balances a block from the start line of the indexed
\* symbol, the content is the text of the symbol's range, the local tier is
\* not consulted, and the result is NotFound only when that text is empty.
C29_RawRangeFallback ==
    (/\ resPc = "done"
     /\ IndexHasFunction
     /\ IndexedSymbol.uri # "gone"
     /\ BalancePoints(TextFrom(IndexedHome, IndexedSymbol.range.start.line)) = {})
    => /\ resLocalCalls = 0
       /\ IF Len(IndexedRawText) = 0 THEN resResult = NotFound
          ELSE /\ resResult.found
               /\ resResult.content = IndexedRawText
               /\ resResult.uri = IndexedSymbol.uri
               /\ resResult.range = IndexedSymbol.range
\* The symbol spans `helper;` on the last line of the other document, while
\* the originating document holds a declaration of helper.
C29_Witness ==
    /\ resPc = "done"
    /\ IndexHasFunction
    /\ document = DocLocalFunction
    /\ IndexedSymbol.uri = "lib"
    /\ IndexedSymbol.range = Rng(Pos(3, 0), Pos(3, 7))
    /\ resResult.found
    /\ resResult.content = NameHelper \o <<";">>

\* ======================================================================
\* XrayPanel.updateForEditor (panel.ts) and its triggers (extension.ts)
\* ======================================================================
\* The most updateForEditor calls of one behaviour when each is made after the
\* one before has returned, and when they may overlap.
MaxEvents == 3
MaxOverlapped == 2
\* The most updateForEditor calls of one behaviour in which the panel is
\* closed and opened again.
MaxLifecycleCalls == 2
\* The most edits and editor switches of one behaviour.
MaxChanges == 1

\* ---------------------------------------------------- the open documents
\* The document of the first editor: g calls nothing; f calls a, b and c; b is unterminated.
\*   0  const g = () => {
\*   1    return 7;
\*   2  }
\*   3  function f() {
\*   4    a(); b(); c();
\*   5  }
\*   6  function a() { return 1; }
\*   7  function c() { return 3; }
\*   8  
\*   9  function b() {
\*   10    return 2;
PanelSrc ==
  <<<<"c", "o", "n", "s", "t", " ", "g", " ", "=", " ", "(", ")", " ", "=", ">", " ", "{">>,
    <<" ", " ", "r", "e", "t", "u", "r", "n", " ", "7", ";">>,
    <<"}">>,
    <<"f", "u", "n", "c", "t", "i", "o", "n", " ", "f", "(", ")", " ", "{">>,
    <<" ", " ", "a", "(", ")", ";", " ", "b", "(", ")", ";", " ", "c", "(", ")", ";">>,
    <<"}">>,
    <<"f", "u", "n", "c", "t", "i", "o", "n", " ", "a", "(", ")", " ", "{", " ", "r", "e", "t", "u", "r", "n", " ", "1", ";", " ", "}">>,
    <<"f", "u", "n", "c", "t", "i", "o", "n", " ", "c", "(", ")", " ", "{", " ", "r", "e", "t", "u", "r", "n", " ", "3", ";", " ", "}">>,
    <<>>,
    <<"f", "u", "n", "c", "t", "i", "o", "n", " ", "b", "(", ")", " ", "{">>,
    <<" ", " ", "r", "e", "t", "u", "r", "n", " ", "2", ";">>>>
\* The same document after an edit of the body of f.
\*   0  const g = () => {
\*   1    return 7;
\*   2  }
\*   3  function f() {
\*   4    c();
\*   5  }
\*   6  function a() { return 1; }
\*   7  function c() { return 3; }
\*   8  
\*   9  function b() {
\*   10    return 2;
PanelSrcEdited ==
  <<<<"c", "o", "n", "s", "t", " ", "g", " ", "=", " ", "(", ")", " ", "=", ">", " ", "{">>,
    <<" ", " ", "r", "e", "t", "u", "r", "n", " ", "7", ";">>,
    <<"}">>,
    <<"f", "u", "n", "c", "t", "i", "o", "n", " ", "f", "(", ")", " ", "{">>,
    <<" ", " ", "c", "(", ")", ";">>,
    <<"}">>,
    <<"f", "u", "n", "c", "t", "i", "o", "n", " ", "a", "(", ")", " ", "{", " ", "r", "e", "t", "u", "r", "n", " ", "1", ";", " ", "}">>,
    <<"f", "u", "n", "c", "t", "i", "o", "n", " ", "c", "(", ")", " ", "{", " ", "r", "e", "t", "u", "r", "n", " ", "3", ";", " ", "}">>,
    <<>>,
    <<"f", "u", "n", "c", "t", "i", "o", "n", " ", "b", "(", ")", " ", "{">>,
    <<" ", " ", "r", "e", "t", "u", "r", "n", " ", "2", ";">>>>
\* The document of a second editor: h calls k, which is declared nowhere.
\*   0  function h() {
\*   1    k();
\*   2  }
PanelOther ==
  <<<<"f", "u", "n", "c", "t", "i", "o", "n", " ", "h", "(", ")", " ", "{">>,
    <<" ", " ", "k", "(", ")", ";">>,
    <<"}">>>>
\* outer and inner on one line.
\*   0  function outer(){ inner(); } function inner(){ return 42; }
PanelE2E ==
  <<<<"f", "u", "n", "c", "t", "i", "o", "n", " ", "o", "u", "t", "e", "r", "(", ")", "{", " ", "i", "n", "n", "e", "r", "(", ")", ";", " ", "}", " ", "f", "u", "n", "c", "t", "i", "o", "n", " ", "i", "n", "n", "e", "r", "(", ")", "{", " ", "r", "e", "t", "u", "r", "n", " ", "4", "2", ";", " ", "}">>>>

OpenUris == {"src", "other", "e2e"}
\* The text of a document, by the number of edits made to it.
TextOf(u, edits) ==
    IF u = "src" THEN (IF edits = 0 THEN PanelSrc ELSE PanelSrcEdited)
    ELSE IF u = "other" THEN PanelOther ELSE PanelE2E
TextsAtStart == [u \in OpenUris |-> 0]

\* Where the cursor is put in each document: in the body of g and of f (on
\* `a` and between two calls) and on the empty line; in the body of h; in the
\* body of outer and of inner.
CursorPositions(u) ==
    IF u = "src" THEN {Pos(1, 2), Pos(4, 2), Pos(4, 6), Pos(8, 0)}
    ELSE IF u = "other" THEN {Pos(1, 2)}
    ELSE {Pos(0, 18), Pos(0, 47)}
\* The selection an editor has when it becomes the active one.
CursorAtStart(u) == IF u = "src" THEN Pos(8, 0) ELSE IF u = "other" THEN Pos(1, 2) ELSE Pos(0, 18)

\* The DocumentSymbol tree the provider gives for a document, when it gives one.
FunctionSymbol(name, r) == [name |-> name, kind |-> "Function", range |-> r, parent |-> 0]
OutlineFor(doc) ==
    IF doc = PanelSrc \/ doc = PanelSrcEdited
    THEN <<FunctionSymbol(<<"g">>, Rng(Pos(0, 0), Pos(2, 1))),
           FunctionSymbol(<<"f">>, Rng(Pos(3, 0), Pos(5, 1))),
           FunctionSymbol(<<"a">>, Rng(Pos(6, 0), Pos(6, 26))),
           FunctionSymbol(<<"c">>, Rng(Pos(7, 0), Pos(7, 26))),
           FunctionSymbol(<<"b">>, Rng(Pos(9, 0), Pos(10, 11)))>>
    ELSE IF doc = PanelOther
    THEN <<FunctionSymbol(<<"h">>, Rng(Pos(0, 0), Pos(2, 1)))>>
    ELSE <<FunctionSymbol(NameOuter, Rng(Pos(0, 0), Pos(0, 28))),
           FunctionSymbol(<<"i", "n", "n", "e", "r">>, Rng(Pos(0, 29), Pos(0, 59)))>>

\* What the workspace symbol provider knows, when it answers: a symbol for a
\* whose document cannot be opened.
IndexedFunction(name, uri) ==
    [name |-> name, kind |-> "Function", uri |-> uri, range |-> Rng(Pos(0, 0), Pos(2, 1))]
PanelIndex == <<IndexedFunction(<<"a">>, "gone")>>
\* The symbols the provider has, by what it does when asked.
IndexWhen(status) == IF status = "ok" THEN PanelIndex ELSE <<>>

\* ------------------------------------------- the two lookups, as functions
\* findEnclosingFunctionRange(document, position): which of its three paths
\* runs is decided by what the symbol provider does.
findEnclosingFunctionRange(doc, p, status, tbl) ==
    IF status = "throws" THEN OnOutlineError(doc, p)
    ELSE IF status = "undefined" \/ Len(tbl) = 0 THEN OnNoSymbols(doc, p)
    ELSE OnSymbols(tbl, doc, p)

\* The provider's answer to a query: the symbols of that name.
RECURSIVE QueryIndex(_, _)
QueryIndex(syms, name) ==
    IF Len(syms) = 0 THEN <<>>
    ELSE (IF syms[1].name = name THEN <<syms[1]>> ELSE <<>>) \o QueryIndex(Tail(syms), name)

\* resolveFunctionDefinition(functionName, sourceDocument)
resolveFunctionDefinition(name, doc, status, syms) ==
    IF status = "throws" THEN OnResolveError(doc, name)
    ELSE IF status = "undefined" \/ Len(syms) = 0 THEN OnNoIndexSymbols(doc, name)
    ELSE IF Len(FilterFunctionSymbols(syms)) = 0 THEN OnNoFunctionSymbols(doc, name)
    ELSE LET symbol == FirstSymbol(FilterFunctionSymbols(syms)) IN
         IF ~CanOpen(symbol.uri) THEN OnResolveError(doc, name)
         ELSE Resolved(DefinitionOfSymbol(name, symbol, OpenTextDocument(doc, symbol.uri)), 0)

\* `document.uri` of a definition found in the originating document.
OfDocument(d, uri) == IF d.found /\ d.uri = "src" THEN [d EXCEPT !.uri = uri] ELSE d

\* document.getWordRangeAtPosition(position), then getText: the run of word
\* characters that touches the position; <<>> stands for null.
WordAt(doc, p) ==
    LET line == LineAt(doc, p.line)
        c == Min(p.character, Len(line))
        s == CHOOSE a \in 0..c : (\A k \in (a + 1)..c : line[k] \in WordChars)
                                 /\ \A b \in 0..(a - 1) : \E k \in (b + 1)..c : line[k] \notin WordChars
        e == CHOOSE a \in c..Len(line) : (\A k \in (c + 1)..a : line[k] \in WordChars)
                                 /\ \A b \in (a + 1)..Len(line) : \E k \in (c + 1)..b : line[k] \notin WordChars
    IN SubSeq(line, s + 1, e)

\* `unique` of a scope.
UniqueCalls(doc, enclosing) ==
    UniqueFilter(parseFunctionCallsInRange(doc, enclosing.range), enclosing.name, 1, {})

\* ------------------------------- the lookups of every document, tabulated
\* What the providers can do when asked.
ProviderStatuses == {"throws", "undefined", "ok"}
\* The texts a document goes through: the first editor's is edited once.
VersionsOf(u) == IF u = "src" THEN 0..1 ELSE {0}
TheOne(S) == CHOOSE x \in S : TRUE
\* A function as a table of its values: f @@ g is computed once, entry by entry.
Tabulated(f) == f @@ <<>>

\* What updateForEditor reads from its document up to the Promise.all: the
\* enclosing function, the word under the cursor and the calls to look up.
ScopeOf(doc, p, status) ==
    TheOne({[threw |-> loc.threw, enclosing |-> loc.result, word |-> WordAt(doc, p),
             unique |-> IF loc.result.found THEN UniqueCalls(doc, loc.result) ELSE <<>>]
            : loc \in {findEnclosingFunctionRange(doc, p, status, OutlineFor(doc))}})
ScopeKeys ==
    {k \in OpenUris \X (0..1) \X ProviderStatuses \X UNION {CursorPositions(u) : u \in OpenUris} :
        k[2] \in VersionsOf(k[1]) /\ k[4] \in CursorPositions(k[1])}
Scopes == Tabulated([k \in ScopeKeys |-> ScopeOf(TextOf(k[1], k[2]), k[4], k[3])])

\* The names updateForEditor can look up in a document.
CalledNames(u) == UNION {NamesOf(Scopes[k].unique) : k \in {x \in ScopeKeys : x[1] = u}}
\* What one resolveFunctionDefinition(call.name, editor.document) resolves to.
LookupOf(name, doc, uri, status) ==
    TheOne({[out EXCEPT !.result = OfDocument(out.result, uri)]
            : out \in {resolveFunctionDefinition(name, doc, status, QueryIndex(IndexWhen(status), name))}})
LookupKeys ==
    {k \in OpenUris \X (0..1) \X ProviderStatuses \X UNION {CalledNames(u) : u \in OpenUris} :
        k[2] \in VersionsOf(k[1]) /\ k[4] \in CalledNames(k[1])}
Lookups == Tabulated([k \in LookupKeys |-> LookupOf(k[4], TextOf(k[1], k[2]), k[1], k[3])])

\* ------------------------------------------------------------ the webview
MsgDefault == "Move cursor inside a function to see its callees here."
MsgNoCalls == "No resolvable function calls found in this scope."
MsgNoDefinitions == "No definitions could be resolved for calls in this scope."
\* _emptyHtml(message)
EmptyHtml(message) == [kind |-> "empty", message |-> message]
\* One hunk of _getHtml: the name, the file, the line and the highlighted body.
Hunk(def) == [name |-> def.name, uri |-> def.uri, line |-> def.startLine, body |-> def.content]
\* _getHtml(enclosingName, definitions, languageId)
GetHtml(enclosingName, definitions) ==
    [kind |-> "hunks", scope |-> enclosingName,
     hunks |-> [k \in 1..Len(definitions) |-> Hunk(definitions[k])]]
TitleXray == <<"kodx: Xray">>
TitleOf(enclosingName) == <<"kodx: ", enclosingName>>

\* The XrayPanel objects.  `panel` is the object made last, with the fields of
\* its webview panel (open: not disposed; html; title; posted: the number of
\* messages posted to it; scrolledTo: the name in the last of them) and of the
\* object; id is its number and old holds the objects made before it.
\* instance is the static XrayPanel._instance: the number of an object, or 0
\* for undefined.
\* The panel as its constructor leaves it.
PanelAtStart ==
    [open |-> TRUE, html |-> EmptyHtml(MsgDefault), title |-> TitleXray,
     currentEnclosingLine |-> -1, currentHighlightedCall |-> <<>>, scrolledTo |-> <<>>,
     posted |-> 0, id |-> 1, instance |-> 1, old |-> <<>>]
\* Before any XrayPanel is made.
NoPanel == [PanelAtStart EXCEPT !.open = FALSE, !.id = 0, !.instance = 0]
\* The most XrayPanel objects made in one behaviour.
MaxPanels == 2

\* `!XrayPanel._instance` of getInstance, negated.
HasInstanceNever(p) == FALSE
HasInstance(p) == p.instance # 0
\* XrayPanel.isOpen()
isOpen(p) == p.instance # 0
\* XrayPanel.getInstance(context): the objects afterwards.
getInstance(p) ==
    IF HasInstance(p) THEN p
    ELSE [PanelAtStart EXCEPT !.id = p.id + 1, !.instance = p.id + 1,
                              !.old = IF p.id = 0 THEN <<>> ELSE Append(p.old, [p EXCEPT !.old = <<>>])]

\* The object numbered i.
ObjectAt(p, i) == IF i = p.id THEN p ELSE p.old[i]
\* `XrayPanel._instance = undefined`
ClearInstance(p) == [p EXCEPT !.instance = 0]
\* this._panel.dispose(): it disposes a webview panel that is not disposed,
\* and returns at once on one that is.
WebviewDispose(p, i) ==
    IF ~ObjectAt(p, i).open THEN p
    ELSE IF i = p.id THEN [p EXCEPT !.open = FALSE] ELSE [p EXCEPT !.old[i].open = FALSE]
\* dispose() of the object i, run by onDidDispose when its webview panel is
\* closed, and run again from within this._panel.dispose().
dispose(p, i) == ClearInstance(WebviewDispose(ClearInstance(p), i))

\* ------------------------------------------------- one updateForEditor call
\* An updateForEditor call that has not returned.
Running(run) == run.pc \in {"awaitScope", "awaitAll", "awaitHtml"}

\* The locals of a call that has just read editor.document and
\* editor.selection.active.  trigger: the handler that made the call; before:
\* what the webview showed then; overlapped: another call was running while
\* this one was; instance: the object it is a call of; late: it has set the
\* html of, or posted a message to, a webview panel that was disposed.
NewRun(trigger, uri, p) ==
    [pc |-> "awaitScope", trigger |-> trigger, uri |-> uri, position |-> p, epoch |-> epoch,
     before |-> getInstance(panel).html,
     overlapped |-> \E r \in 1..Len(runs) : Running(runs[r]),
     scope |-> NotFound, word |-> <<>>, unique |-> <<>>,
     pending |-> {}, resolved |-> <<>>, completed |-> <<>>, definitions |-> <<>>,
     outcome |-> "running", wrote |-> NotFound,
     instance |-> getInstance(panel).id, late |-> FALSE]

\* Whether the next event arrives now.  In the scenario "panel" the user waits
\* for the panel to settle before the next event; in "overlap" and in
\* "lifecycle" events arrive at any time.
EventArrives ==
    IF scenario = "panel"
    THEN Len(runs) < MaxEvents /\ \A r \in 1..Len(runs) : ~Running(runs[r])
    ELSE IF scenario = "overlap" THEN Len(runs) < MaxOverlapped
    ELSE scenario = "lifecycle" /\ Len(runs) < MaxLifecycleCalls

StartRun(trigger, uri, p) ==
    runs' = Append([r \in 1..Len(runs) |->
                       IF Running(runs[r]) THEN [runs[r] EXCEPT !.overlapped = TRUE] ELSE runs[r]],
                   NewRun(trigger, uri, p))

\* A call returns: how it ended, and what it put into the webview, if anything.
Returned(run, outcome, wrote) ==
    [run EXCEPT !.pc = "done", !.outcome = outcome, !.wrote = wrote]

\* `enclosingFunction.range.start.line === this._currentEnclosingLine`
SameScope(line, currentEnclosingLine) == line = currentEnclosingLine

\* The body of that branch: scroll to the call under the cursor, keep the rest.
OnSameScopeAlwaysScrolls(p, word) ==
    [p EXCEPT !.currentHighlightedCall = word, !.scrolledTo = word, !.posted = p.posted + 1]
OnSameScope(p, word) ==
    IF Len(word) > 0 /\ word # p.currentHighlightedCall
    THEN [p EXCEPT !.currentHighlightedCall = word, !.scrolledTo = word, !.posted = p.posted + 1]
    ELSE p

\* updateForEditor from the return of findEnclosingFunctionRange to its next
\* await or return: the call and the panel afterwards.
AfterScope(run, p, sc) ==
    LET enclosing == sc.enclosing
        word == sc.word
        line == enclosing.range.start.line
        p1 == [p EXCEPT !.currentEnclosingLine = line]
        uniq == sc.unique
    IN IF sc.threw THEN [run |-> Returned(run, "rejected", NotFound), panel |-> p]
       ELSE IF ~enclosing.found THEN [run |-> Returned(run, "noScope", NotFound), panel |-> p]
       ELSE IF SameScope(line, p.currentEnclosingLine)
       THEN [run |-> Returned([run EXCEPT !.scope = enclosing, !.word = word], "sameScope", NotFound),
             panel |-> OnSameScope(p, word)]
       ELSE IF Len(uniq) = 0
       THEN [run |-> Returned([run EXCEPT !.scope = enclosing, !.word = word],
                              "noCalls", EmptyHtml(MsgNoCalls)),
             panel |-> [p1 EXCEPT !.html = EmptyHtml(MsgNoCalls), !.title = TitleXray]]
       ELSE [run |-> [run EXCEPT !.scope = enclosing, !.word = word, !.unique = uniq,
                                 !.pending = 1..Len(uniq),
                                 !.resolved = [k \in 1..Len(uniq) |-> Resolved(NotFound, 0)],
                                 !.pc = "awaitAll"],
             panel |-> p1]

\* `resolved.filter(d => d !== null)` on the array of Promise.all, which
\* keeps the order of `unique` whatever the order of completion.
RECURSIVE NonNull(_, _)
NonNull(resolved, order) ==
    IF Len(order) = 0 THEN <<>>
    ELSE (IF resolved[order[1]].result.found THEN <<resolved[order[1]].result>> ELSE <<>>)
         \o NonNull(resolved, Tail(order))
JoinInCompletionOrder(resolved, completed) == NonNull(resolved, completed)
JoinInCallOrder(resolved, completed) == NonNull(resolved, [k \in 1..Len(resolved) |-> k])

\* updateForEditor from the return of Promise.all to its next await or return.
AfterJoin(run, p) ==
    LET definitions == JoinInCallOrder(run.resolved, run.completed) IN
    IF \E k \in 1..Len(run.resolved) : run.resolved[k].threw
    THEN [run |-> Returned(run, "rejected", NotFound), panel |-> p]
    ELSE IF Len(definitions) = 0
    THEN [run |-> Returned(run, "noDefinitions", EmptyHtml(MsgNoDefinitions)),
          panel |-> [p EXCEPT !.html = EmptyHtml(MsgNoDefinitions), !.title = TitleXray]]
    ELSE [run |-> [run EXCEPT !.definitions = definitions, !.pc = "awaitHtml"], panel |-> p]

\* updateForEditor from the return of _getHtml to its return.
AfterHtml(run, p) ==
    LET html == GetHtml(run.scope.name, run.definitions)
        p1 == [p EXCEPT !.html = html, !.title = TitleOf(run.scope.name)]
    IN IF Len(run.word) > 0
       THEN [run |-> [run EXCEPT !.pc = "timer", !.outcome = "rendered", !.wrote = html],
             panel |-> [p1 EXCEPT !.currentHighlightedCall = run.word]]
       ELSE [run |-> Returned(run, "rendered", html), panel |-> p1]

\* ------------------------------------------------------------ the triggers
\* onDidChangeTextEditorSelection: the cursor of the active editor moves.
SelectionChanged(p) ==
    /\ EventArrives
    /\ p \in CursorPositions(activeUri)
    /\ p # cursor
    /\ cursor' = p
    /\ IF isOpen(panel)
       THEN /\ panel' = getInstance(panel)
            /\ StartRun("selection", activeUri, p)
       ELSE UNCHANGED <<panel, runs>>
    /\ UNCHANGED <<scenario, document, exVars, locVars, callVars, resVars, hlVars, decoVars, texts, activeUri, epoch>>

\* The command kodx.xray: getInstance, which makes the panel when there is
\* none, then updateForEditor.
XrayCommand ==
    /\ EventArrives
    /\ HasInstance(panel) \/ panel.id < MaxPanels
    /\ panel' = getInstance(panel)
    /\ StartRun("command", activeUri, cursor)
    /\ UNCHANGED <<scenario, document, exVars, locVars, callVars, resVars, hlVars, decoVars, texts, activeUri, cursor, epoch>>

\* resetCurrentScope()
resetCurrentScope(p) == [p EXCEPT !.currentEnclosingLine = -1, !.currentHighlightedCall = <<>>]

\* onDidChangeActiveColorTheme with the panel open: resetCurrentScope(), then
\* updateForEditor.
ThemeChanged ==
    /\ EventArrives
    /\ isOpen(panel)
    /\ panel' = resetCurrentScope(getInstance(panel))
    /\ StartRun("theme", activeUri, cursor)
    /\ UNCHANGED <<scenario, document, exVars, locVars, callVars, resVars, hlVars, decoVars, texts, activeUri, cursor, epoch>>

\* The user edits the body of f; the handler of onDidChangeTextDocument
\* refreshes the decorations and leaves the panel alone.
EditDocument ==
    /\ scenario \in {"panel", "overlap"}
    /\ epoch < MaxChanges
    /\ texts["src"] = 0
    /\ texts' = [texts EXCEPT !["src"] = 1]
    /\ epoch' = epoch + 1
    /\ UNCHANGED <<scenario, document, exVars, locVars, callVars, resVars, hlVars, decoVars, activeUri, cursor, panel, runs>>

\* The user makes another editor the active one; the handler of
\* onDidChangeActiveTextEditor refreshes the decorations and leaves the panel
\* alone.
SwitchEditor(u) ==
    /\ scenario \in {"panel", "overlap"}
    /\ epoch < MaxChanges
    /\ u # activeUri
    /\ activeUri' = u
    /\ cursor' = CursorAtStart(u)
    /\ epoch' = epoch + 1
    /\ UNCHANGED <<scenario, document, exVars, locVars, callVars, resVars, hlVars, decoVars, texts, panel, runs>>

\* --------------------------------------------------- the steps of a call
\* The object a call is a call of.
ObjectOf(run) == ObjectAt(panel, run.instance)
\* A step of the call r, next being the call and its object afterwards.
PanelStep(r, next) ==
    LET obj == ObjectOf(runs[r])
        touched == next.run.wrote # runs[r].wrote \/ next.panel.posted # obj.posted
    IN
    /\ runs' = [runs EXCEPT ![r] = IF ~obj.open /\ touched THEN [next.run EXCEPT !.late = TRUE]
                                   ELSE next.run]
    /\ panel' = IF runs[r].instance = panel.id THEN next.panel
                ELSE [panel EXCEPT !.old[runs[r].instance] = next.panel]
    /\ UNCHANGED <<scenario, document, exVars, locVars, callVars, resVars, hlVars, decoVars, texts, activeUri, cursor, epoch>>

\* findEnclosingFunctionRange resolves.
ScopeReturns(r) ==
    /\ runs[r].pc = "awaitScope"
    /\ PanelStep(r, AfterScope(runs[r], ObjectOf(runs[r]),
                                Scopes[<<runs[r].uri, texts[runs[r].uri], outlineStatus, runs[r].position>>]))

\* One resolveFunctionDefinition of the Promise.all resolves.
LookupCompletes(r, k) ==
    /\ runs[r].pc = "awaitAll"
    /\ k \in runs[r].pending
    /\ LET def == Lookups[<<runs[r].uri, texts[runs[r].uri], indexStatus, runs[r].unique[k].name>>]
       IN PanelStep(r, [run |-> [runs[r] EXCEPT !.resolved[k] = def,
                                               !.pending = runs[r].pending \ {k},
                                               !.completed = Append(runs[r].completed, k)],
                        panel |-> ObjectOf(runs[r])])

\* Promise.all resolves.
Join(r) ==
    /\ runs[r].pc = "awaitAll"
    /\ runs[r].pending = {}
    /\ PanelStep(r, AfterJoin(runs[r], ObjectOf(runs[r])))

\* _getHtml resolves.
HtmlReady(r) ==
    /\ runs[r].pc = "awaitHtml"
    /\ PanelStep(r, AfterHtml(runs[r], ObjectOf(runs[r])))

\* The timer set at the end of updateForEditor fires: _scrollToFunction.
ScrollTimer(r) ==
    /\ runs[r].pc = "timer"
    /\ PanelStep(r, [run |-> [runs[r] EXCEPT !.pc = "done"],
                     panel |-> [ObjectOf(runs[r]) EXCEPT !.scrolledTo = runs[r].word,
                                                         !.posted = ObjectOf(runs[r]).posted + 1]])

\* The user closes the webview panel of the object i: onDidDispose, dispose().
ClosePanel(i) ==
    /\ scenario = "lifecycle"
    /\ i \in 1..panel.id
    /\ ObjectAt(panel, i).open
    /\ panel' = dispose(panel, i)
    /\ UNCHANGED <<scenario, document, exVars, locVars, callVars, resVars, hlVars, decoVars, texts, activeUri, cursor, epoch, runs>>

InitPanelIn(s) ==
    /\ scenario = s
    /\ document = PanelSrc
    /\ ExIdle
    /\ CallIdle
    /\ outlineStatus \in {"throws", "undefined", "ok"}
    /\ outline = <<>>
    /\ position = [line |-> 0, character |-> 0]
    /\ locResult = NotFound
    /\ locTierB = 0
    /\ locThrew = FALSE
    /\ locPc = "idle"
    /\ functionName = <<>>
    /\ indexStatus \in {"throws", "undefined", "ok"}
    /\ index = IndexWhen(indexStatus)
    /\ resSymbol = NotFound
    /\ resResult = NotFound
    /\ resLocalCalls = 0
    /\ resThrew = FALSE
    /\ resPc = "idle"
    /\ texts = TextsAtStart
    /\ activeUri \in {"src", "e2e"}
    /\ cursor = CursorAtStart(activeUri)
    /\ epoch = 0
    /\ panel = IF s = "lifecycle" THEN NoPanel ELSE PanelAtStart
    /\ runs = <<>>
    /\ HlIdle
    /\ DecoIdle

NextPanel ==
    \/ \E p \in UNION {CursorPositions(u) : u \in OpenUris} : SelectionChanged(p)
    \/ XrayCommand
    \/ ThemeChanged
    \/ EditDocument
    \/ \E u \in OpenUris : SwitchEditor(u)
    \/ \E r \in 1..Len(runs) : ScopeReturns(r)
    \/ \E r \in 1..Len(runs) : \E k \in runs[r].pending : LookupCompletes(r, k)
    \/ \E r \in 1..Len(runs) : Join(r)
    \/ \E r \in 1..Len(runs) : HtmlReady(r)
    \/ \E r \in 1..Len(runs) : ScrollTimer(r)

InitPanel == InitPanelIn("panel")
InitOverlap == InitPanelIn("overlap")

\* Events that wait for the panel, and events that do not.
SpecPanel == InitPanel /\ [][NextPanel]_vars
SpecOverlap == InitOverlap /\ [][NextPanel]_vars

\* The panel is opened by the command, closed by the user and opened again,
\* while calls of updateForEditor are running.
InitLifecycle == InitPanelIn("lifecycle")
NextLifecycle ==
    \/ \E p \in UNION {CursorPositions(u) : u \in OpenUris} : SelectionChanged(p)
    \/ XrayCommand
    \/ ThemeChanged
    \/ \E i \in 1..MaxPanels : ClosePanel(i)
    \/ \E r \in 1..Len(runs) : ScopeReturns(r)
    \/ \E r \in 1..Len(runs) : \E k \in runs[r].pending : LookupCompletes(r, k)
    \/ \E r \in 1..Len(runs) : Join(r)
    \/ \E r \in 1..Len(runs) : HtmlReady(r)
    \/ \E r \in 1..Len(runs) : ScrollTimer(r)
SpecLifecycle == InitLifecycle /\ [][NextLifecycle]_vars

\* ------------------------------------------------------ claims on the panel
\* A call that went through the whole of updateForEditor's pipeline: it has
\* returned, and not from the same-scope branch.
Finished(run) == run.pc \in {"timer", "done"}
WholeRun(run) == Finished(run) /\ run.outcome \in {"noCalls", "noDefinitions", "rendered"}

NameInner == <<"i", "n", "n", "e", "r">>
ReturnFortyTwo == <<"r", "e", "t", "u", "r", "n", " ", "4", "2", ";">>
InOuterBody == Pos(0, 18)

\* C12: with no index available (the provider fails or answers nothing), a
\* run over `function outer(){ inner(); } function inner(){ return 42; }`
\* with the cursor in the body of outer yields a Definition for inner whose
\* content contains `return 42;`.
C12_EndToEnd ==
    \A r \in 1..Len(runs) :
        (/\ WholeRun(runs[r])
         /\ runs[r].uri = "e2e"
         /\ runs[r].position = InOuterBody
         /\ indexStatus \in {"throws", "undefined"})
        => \E k \in 1..Len(runs[r].definitions) :
              /\ runs[r].definitions[k].name = NameInner
              /\ Includes(runs[r].definitions[k].content, ReturnFortyTwo)
\* The same with a provider that answers nothing: the local tier finds inner.
C12_EndToEndWhenIndexAnswers ==
    \A r \in 1..Len(runs) :
        (/\ WholeRun(runs[r])
         /\ runs[r].uri = "e2e"
         /\ runs[r].position = InOuterBody
         /\ indexStatus = "undefined")
        => \E k \in 1..Len(runs[r].definitions) :
              /\ runs[r].definitions[k].name = NameInner
              /\ Includes(runs[r].definitions[k].content, ReturnFortyTwo)
C12_WhenIndexAnswersSeen ==
    \E r \in 1..Len(runs) :
        /\ WholeRun(runs[r]) /\ runs[r].uri = "e2e" /\ runs[r].position = InOuterBody
        /\ indexStatus = "undefined"

\* The Promise.all of a call has resolved.
Joined(run) ==
    \/ run.pc = "awaitHtml"
    \/ Finished(run) /\ run.outcome \in {"noDefinitions", "rendered"}
\* The i-th smallest member of a set of numbers.
Nth(S, i) == CHOOSE k \in S : Cardinality({j \in S : j < k}) = i - 1
\* The calls of `unique` whose lookup resolved to a definition.
FoundCalls(run) == {k \in 1..Len(run.unique) : run.resolved[k].result.found}
DefinitionNames(run) == [i \in 1..Len(run.definitions) |-> run.definitions[i].name]

\* C13: the lookups of a run complete in any order, and the Definition list
\* of the run is, for every completion order, the definitions of the names
\* that resolved in the order of their first call sites.
C13_ListInCallOrder ==
    \A r \in 1..Len(runs) :
        Joined(runs[r]) =>
            /\ Len(runs[r].definitions) = Cardinality(FoundCalls(runs[r]))
            /\ \A i \in 1..Len(runs[r].definitions) :
                  runs[r].definitions[i] = runs[r].resolved[Nth(FoundCalls(runs[r]), i)].result
\* The lookups of f completed last call first, the middle one found nothing,
\* and the list is a, c.
C13_Witness ==
    \E r \in 1..Len(runs) :
        /\ Joined(runs[r])
        /\ runs[r].completed = <<3, 2, 1>>
        /\ FoundCalls(runs[r]) = {1, 3}
        /\ DefinitionNames(runs[r]) = <<<<"a">>, <<"c">>>>

\* C14: when two calls made by successive cursor events overlap, the panel
\* shows, once both have returned, what the later one put there.
C14_NewerSupersedes ==
    (/\ Len(runs) = 2
     /\ \A r \in 1..2 : runs[r].pc = "done" /\ runs[r].trigger = "selection" /\ runs[r].overlapped
     /\ runs[2].wrote # NotFound)
    => panel.html = runs[2].wrote

\* C15: a name whose lookup ends in NotFound (no declaration, an unterminated
\* block, or an error of the provider) is left out of the list, every name
\* that resolved is in it, and no call is rejected.
C15_FailuresAreLocal ==
    \A r \in 1..Len(runs) :
        /\ runs[r].outcome # "rejected"
        /\ \A k \in 1..Len(runs[r].resolved) : ~runs[r].resolved[k].threw
        /\ Joined(runs[r]) =>
              \A k \in 1..Len(runs[r].unique) :
                  runs[r].resolved[k].result.found
                  <=> \E i \in 1..Len(runs[r].definitions) :
                         runs[r].definitions[i].name = runs[r].unique[k].name
\* The provider knows a in a document that cannot be opened, b is
\* unterminated, and the list is c alone.
C15_Witness ==
    \E r \in 1..Len(runs) :
        /\ Joined(runs[r])
        /\ indexStatus = "ok"
        /\ NamesOf(runs[r].unique) = {<<"a">>, <<"b">>, <<"c">>}
        /\ DefinitionNames(runs[r]) = <<<<"c">>>>

\* The hunks a call computes from a document and a position when it does not
\* consult _currentEnclosingLine.
FreshHunks(u, edits, p) ==
    LET sc == Scopes[<<u, edits, outlineStatus, p>>]
        found == {k \in 1..Len(sc.unique) :
                     Lookups[<<u, edits, indexStatus, sc.unique[k].name>>].result.found}
    IN [i \in 1..Cardinality(found) |->
           Hunk(Lookups[<<u, edits, indexStatus, sc.unique[Nth(found, i)].name>>].result)]
ShownHunks(html) == IF html.kind = "hunks" THEN html.hunks ELSE <<>>
\* No two calls overlapped, all have returned, and nothing has changed since
\* the last one was made.
SettledAfterLast ==
    /\ Len(runs) > 0
    /\ \A r \in 1..Len(runs) : Finished(runs[r]) /\ ~runs[r].overlapped
    /\ runs[Len(runs)].uri = activeUri
    /\ runs[Len(runs)].position = cursor
    /\ runs[Len(runs)].epoch = epoch

\* C16: after non-overlapping cursor moves, edits and editor switches, the
\* definitions shown for a cursor inside a function are those a call without
\* the cached scope line computes from the current document and position.
C16_CacheIsOnlyAnOptimization ==
    (/\ SettledAfterLast
     /\ Scopes[<<activeUri, texts[activeUri], outlineStatus, cursor>>].enclosing.found)
    => ShownHunks(panel.html) = FreshHunks(activeUri, texts[activeUri], cursor)

\* C17: a call that finds no enclosing function, no calls or no definitions
\* returns normally and leaves an empty-state message in the panel.
C17_NothingToShow ==
    (/\ SettledAfterLast
     /\ runs[Len(runs)].outcome \in {"rejected", "noScope", "noCalls", "noDefinitions"})
    => /\ runs[Len(runs)].outcome # "rejected"
       /\ panel.html.kind = "empty"

\* C18: of two successive calls over the same document, position and index
\* answers, the second computes the same Definition list when both compute
\* one, and leaves in the panel what the first left there.
C18_Idempotent ==
    \A r \in 2..Len(runs) :
        (/\ SettledAfterLast
         /\ r = Len(runs)
         /\ runs[r - 1].uri = runs[r].uri
         /\ runs[r - 1].position = runs[r].position
         /\ runs[r - 1].epoch = runs[r].epoch)
        => /\ panel.html = runs[r].before
           /\ (WholeRun(runs[r - 1]) /\ WholeRun(runs[r]))
              => runs[r].definitions = runs[r - 1].definitions

\* What findEnclosingFunctionRange gives the call r when it resolves now.
ScopeGiven(r) == Scopes[<<runs[r].uri, texts[runs[r].uri], outlineStatus, runs[r].position>>]

\* C34: a call that finds an enclosing function starting on the line of the
\* last resolved one returns without call sites and lookups and leaves html
\* and title as they are; it posts one scrollToFunction message, for the word
\* under the cursor, when there is such a word and it is not the call
\* highlighted last, and none otherwise.
C34_SameScopeStep(r) ==
    LET obj == ObjectAt(panel, runs[r].instance)
        after == ObjectAt(panel', runs[r].instance)
        sc == ScopeGiven(r)
    IN (/\ runs[r].pc = "awaitScope"
        /\ Len(runs') = Len(runs)
        /\ runs'[r].pc # "awaitScope"
        /\ ~sc.threw
        /\ sc.enclosing.found
        /\ sc.enclosing.range.start.line = obj.currentEnclosingLine)
       => /\ runs'[r].pc = "done"
          /\ runs'[r].unique = <<>>
          /\ runs'[r].resolved = <<>>
          /\ runs'[r].wrote = NotFound
          /\ after.html = obj.html
          /\ after.title = obj.title
          /\ IF Len(sc.word) > 0 /\ sc.word # obj.currentHighlightedCall
             THEN after.posted = obj.posted + 1 /\ after.scrolledTo = sc.word
             ELSE after.posted = obj.posted /\ after.scrolledTo = obj.scrolledTo
C34_SameScopeShortcut == [][\A r \in 1..Len(runs) : C34_SameScopeStep(r)]_vars
\* f is rendered from the gap between two calls (no word, no message); the
\* cursor moves onto `a` (same scope: one message); the command is given there
\* (same scope, same word: no message).
C34_Witness ==
    /\ Len(runs) = 3
    /\ runs[1].position = Pos(4, 6) /\ runs[1].outcome = "rendered" /\ runs[1].pc = "done"
    /\ runs[2].position = Pos(4, 2) /\ runs[2].outcome = "sameScope"
    /\ runs[3].position = Pos(4, 2) /\ runs[3].outcome = "sameScope"
    /\ panel.posted = 1
    /\ panel.scrolledTo = <<"a">>
    /\ panel.html = runs[1].wrote

\* C35: the call made by the theme handler after resetCurrentScope(), when
\* it finds an enclosing function, does not take the same-scope branch: it
\* goes through the whole pipeline and, unless a lookup rejects, sets the
\* html of the panel.
C35_RecomputesAfterReset ==
    \A r \in 1..Len(runs) :
        (runs[r].trigger = "theme" /\ runs[r].pc # "awaitScope") =>
            /\ runs[r].outcome # "sameScope"
            /\ (Finished(runs[r]) /\ runs[r].scope.found /\ runs[r].outcome # "rejected")
                 => runs[r].wrote # NotFound

\* The XrayPanel objects made so far, and those whose webview panel is open.
Objects == 1..panel.id
LiveObjects == {i \in Objects : ObjectAt(panel, i).open}

\* C36: at most one XrayPanel whose webview panel is not disposed exists, the
\* static instance is that one when there is one and undefined otherwise, and
\* every call is made on the object that was the instance then.
C36_OneLivePanel ==
    /\ Cardinality(LiveObjects) <= 1
    /\ panel.instance # 0 <=> LiveObjects # {}
    /\ panel.instance # 0 => LiveObjects = {panel.instance}
C36_GetInstanceStep ==
    (panel.instance # 0 /\ panel'.instance # 0) => (panel'.id = panel.id /\ panel'.instance = panel.instance)
C36_Singleton == [](C36_OneLivePanel) /\ [][C36_GetInstanceStep]_vars
\* The panel was opened and closed, and opened again by the command while a
\* call on the first object was still running.
C36_Witness ==
    /\ panel.id = 2
    /\ panel.instance = 2
    /\ panel.open
    /\ ~panel.old[1].open
    /\ Len(runs) = 2
    /\ runs[1].instance = 1 /\ Running(runs[1])
    /\ runs[2].instance = 2 /\ runs[2].trigger = "command"

\* C39: no call of updateForEditor, and no scroll timer of one, sets the html
\* or the title of a webview panel that was disposed or posts a message to it.
C39_NoWriteAfterDispose ==
    \A r \in 1..Len(runs) : ~runs[r].late

\* ------------------------------------------------------------ highlighter.ts
MaxRenders == 3
MaxDisposals == 2

\* A highlightCode call that has just entered getHighlighter.
\*   made: the highlighter this call asked shiki.createHighlighter for
\*   hl:   the value its getHighlighter resolved to
NewRender == [pc |-> "start", made |-> 0, hl |-> 0, result |-> "none"]

\* highlightCode(code, languageId) up to the first await: getHighlighter runs
\* to `await import('shiki')` when _highlighter is null and to its return
\* otherwise.
HighlightCode ==
    /\ scenario = "highlight"
    /\ Len(renders) < MaxRenders
    /\ renders' = Append(renders, IF highlighter = 0
                                     THEN [NewRender EXCEPT !.pc = "awaitImport"]
                                     ELSE [NewRender EXCEPT !.pc = "awaitHighlighter", !.hl = highlighter])
    /\ UNCHANGED <<scenario, document, exVars, locVars, callVars, resVars, panelVars, decoVars,
                   highlighter, currentThemeName, disposals, made>>

\* `await import('shiki')` resolves: loadCurrentVscodeTheme is called.
ImportResolves(r) ==
    /\ renders[r].pc = "awaitImport"
    /\ renders' = [renders EXCEPT ![r].pc = "awaitTheme"]
    /\ UNCHANGED <<scenario, document, exVars, locVars, callVars, resVars, panelVars, decoVars,
                   highlighter, currentThemeName, disposals, made>>

\* loadCurrentVscodeTheme resolves to a theme or to null: _currentThemeName is
\* set and shiki.createHighlighter is called, with the theme or with the two
\* bundled themes.
ThemeLoaded(r, vsTheme) ==
    /\ renders[r].pc = "awaitTheme"
    /\ currentThemeName' = vsTheme
    /\ made' = Append(made, [by |-> r, themes |-> vsTheme, after |-> disposals,
                             assigned |-> FALSE, disposed |-> FALSE])
    /\ renders' = [renders EXCEPT ![r].pc = "awaitCreate", ![r].made = Len(made) + 1]
    /\ UNCHANGED <<scenario, document, exVars, locVars, callVars, resVars, panelVars, decoVars,
                   highlighter, disposals>>

\* createHighlighter resolves: `_highlighter = await ...; return _highlighter`.
HighlighterCreated(r) ==
    /\ renders[r].pc = "awaitCreate"
    /\ highlighter' = renders[r].made
    /\ made' = [made EXCEPT ![renders[r].made].assigned = TRUE]
    /\ renders' = [renders EXCEPT ![r].pc = "awaitHighlighter", ![r].hl = renders[r].made]
    /\ UNCHANGED <<scenario, document, exVars, locVars, callVars, resVars, panelVars, decoVars,
                   currentThemeName, disposals>>

\* `await getHighlighter()` resolves in highlightCode: hl.codeToHtml, or the
\* plain <pre> of the catch block when it throws, which a highlighter that
\* was disposed in the meantime may or may not do.
CodeToHtml(r) ==
    /\ renders[r].pc = "awaitHighlighter"
    /\ \E result \in (IF made[renders[r].hl].disposed THEN {"shiki", "pre"} ELSE {"shiki"}) :
           renders' = [renders EXCEPT ![r].pc = "done", ![r].result = result]
    /\ UNCHANGED <<scenario, document, exVars, locVars, callVars, resVars, panelVars, decoVars,
                   highlighter, currentThemeName, disposals, made>>

\* disposeHighlighter()
DisposeHighlighter ==
    /\ scenario = "highlight"
    /\ disposals < MaxDisposals
    /\ disposals' = disposals + 1
    /\ made' = IF highlighter = 0 THEN made ELSE [made EXCEPT ![highlighter].disposed = TRUE]
    /\ highlighter' = 0
    /\ currentThemeName' = "null"
    /\ UNCHANGED <<scenario, document, exVars, locVars, callVars, resVars, panelVars, decoVars, renders>>

InitHighlight ==
    /\ scenario = "highlight"
    /\ document = <<>>
    /\ ExIdle
    /\ LocIdle
    /\ CallIdle
    /\ ResIdle
    /\ PanelIdle
    /\ HlIdle
    /\ DecoIdle
NextHighlight ==
    \/ HighlightCode
    \/ DisposeHighlighter
    \/ \E r \in 1..Len(renders) : ImportResolves(r)
    \/ \E r \in 1..Len(renders) : \E vsTheme \in {"vsTheme", "null"} : ThemeLoaded(r, vsTheme)
    \/ \E r \in 1..Len(renders) : HighlighterCreated(r)
    \/ \E r \in 1..Len(renders) : CodeToHtml(r)
\* highlightCode calls that overlap each other and theme changes.
SpecHighlight == InitHighlight /\ [][NextHighlight]_vars

\* C37: between two disposeHighlighter calls at most one highlighter is
\* created, and a highlighter that _highlighter once referred to and no
\* longer refers to was disposed.
C37_OneHighlighter ==
    /\ \A i, j \in 1..Len(made) : made[i].after = made[j].after => i = j
    /\ \A i \in 1..Len(made) : (made[i].assigned /\ highlighter # i) => made[i].disposed

\* ------------------------------------- FunctionDecorationProvider (indicators)
MaxUpdates == 3
\* A document of one empty line: no calls.
DocBlank == <<<<>>>>
DecoratedDocuments == {PanelOther, PanelE2E, DocBlank}
UriOfDocument(doc) == IF doc = PanelOther THEN "other" ELSE "e2e"
DecoratedLanguages == {"typescript", "typescriptreact", "javascript", "javascriptreact"}

\* `parseFunctionCalls(document).slice(0, 50)`
IndicatorCalls == Tabulated([doc \in DecoratedDocuments |-> SubSeq(parseFunctionCalls(doc), 1, Min(50, Len(parseFunctionCalls(doc))))])
\* What `await resolveFunctionDefinition(call.name, document)` resolves to.
IndicatorLookups ==
    Tabulated([doc \in DecoratedDocuments |->
        [k \in 1..Len(IndicatorCalls[doc]) |->
            LookupOf(IndicatorCalls[doc][k].name, doc, UriOfDocument(doc), indexStatus).result]])

\* The three early returns of updateDecorations (the editor is defined).
ReturnsAtOnce(enabled, lang, setting) == ~enabled \/ lang \notin DecoratedLanguages \/ ~setting

\* updateDecorations(editor) up to its first await, or to its end when there
\* is none.
\*   i: the index of the call being resolved;  setAt: the value of _isEnabled
\*   when the call reached editor.setDecorations.
StartUpdate(enabled, trigger) ==
    LET limited == IndicatorCalls[document]
        new == [trigger |-> trigger, calls |-> limited, i |-> 1, indicators |-> <<>>,
                pc |-> "resolving", set |-> FALSE, setAt |-> TRUE]
    IN IF ReturnsAtOnce(enabled, languageId, enableInlineDecoration)
          THEN [update |-> [new EXCEPT !.pc = "done", !.calls = <<>>], shown |-> shown]
       ELSE IF limited = <<>>
          THEN [update |-> [new EXCEPT !.pc = "done", !.set = TRUE, !.setAt = enabled], shown |-> <<>>]
       ELSE [update |-> new, shown |-> shown]

\* onDidChangeActiveTextEditor, onDidChangeTextDocument of the active editor's
\* document, and the pass made by activate: updateDecorations(editor).
UpdateDecorations ==
    /\ scenario = "decorations"
    /\ Len(updates) < MaxUpdates
    /\ LET out == StartUpdate(isEnabled, "event")
       IN /\ updates' = Append(updates, out.update)
          /\ shown' = out.shown
    /\ UNCHANGED <<scenario, document, exVars, locVars, callVars, resVars, panelVars, hlVars,
                   languageId, enableInlineDecoration, isEnabled>>

\* kodx.toggleInlineCode with an active editor.
ToggleInlineCode ==
    /\ scenario = "decorations"
    /\ IF isEnabled
          THEN /\ isEnabled' = FALSE
               /\ shown' = <<>>
               /\ UNCHANGED updates
          ELSE /\ Len(updates) < MaxUpdates
               /\ isEnabled' = TRUE
               /\ LET out == StartUpdate(TRUE, "toggle")
                  IN /\ updates' = Append(updates, out.update)
                     /\ shown' = out.shown
    /\ UNCHANGED <<scenario, document, exVars, locVars, callVars, resVars, panelVars, hlVars,
                   languageId, enableInlineDecoration>>

\* One `await resolveFunctionDefinition` of the loop resolves; after the last
\* one the loop ends and editor.setDecorations is called.
DefinitionResolved(r) ==
    /\ updates[r].pc = "resolving"
    /\ LET u == updates[r]
           definition == IndicatorLookups[document][u.i]
           indicators == IF definition.found THEN Append(u.indicators, u.calls[u.i].range) ELSE u.indicators
       IN IF u.i < Len(u.calls)
             THEN /\ updates' = [updates EXCEPT ![r].i = u.i + 1, ![r].indicators = indicators]
                  /\ UNCHANGED shown
             ELSE /\ updates' = [updates EXCEPT ![r].i = u.i + 1, ![r].indicators = indicators,
                                                ![r].pc = "done", ![r].set = TRUE, ![r].setAt = isEnabled]
                  /\ shown' = indicators
    /\ UNCHANGED <<scenario, document, exVars, locVars, callVars, resVars, panelVars, hlVars,
                   languageId, enableInlineDecoration, isEnabled>>

InitDecorations ==
    /\ scenario = "decorations"
    /\ document \in DecoratedDocuments
    /\ ExIdle
    /\ LocIdle
    /\ CallIdle
    /\ ResIdle
    /\ PanelIdle
    /\ HlIdle
    /\ languageId \in {"typescript", "python"}
    /\ enableInlineDecoration \in BOOLEAN
    /\ isEnabled = TRUE
    /\ shown = <<>>
    /\ updates = <<>>
NextDecorations ==
    \/ UpdateDecorations
    \/ ToggleInlineCode
    \/ \E r \in 1..Len(updates) : DefinitionResolved(r)
\* Editor events and toggles while updateDecorations calls are running.
SpecDecorations == InitDecorations /\ [][NextDecorations]_vars

\* C38: no updateDecorations call reaches editor.setDecorations while the
\* indicators are disabled, so the editor shows none while they are.
C38_NoIndicatorsWhileDisabled ==
    /\ \A r \in 1..Len(updates) : updates[r].set => updates[r].setAt
    /\ ~isEnabled => shown = <<>>

====
